---- MODULE Spec2Model ----
(***************************************************************************)
(* A model of the learning-english data layer:                             *)
(*   - JSONDatabase   (src/src/database/json-db.js), the file-backed store *)
(*   - DatabaseManager (src/src/database/manager.js), its lifecycle        *)
(*   - VocabularyAPI / SolrService (src/unnamed/part_002), the facade over *)
(*     the remote index and its HTTP client.                               *)
(*   - the db-* IPC handlers of the main process (src/unnamed/part_001).   *)
(*                                                                         *)
(* Every async method is one atomic action (one call that runs to          *)
(* completion).  The timestamps created, lastModified and lastReviewed,    *)
(* the metadata and the display-only fields phonetic and example, which    *)
(* follow the same `x || default` pattern as category, are left out of the *)
(* records; the timestamp of a learning session is kept.                   *)
(***************************************************************************)
EXTENDS Integers, Sequences, FiniteSets, TLC

(***************************************************************************)
(* Bounds of the model.                                                    *)
(***************************************************************************)
\* addVocabulary calls issued directly by the caller in one run
MaxAdds == 3
\* largest offset / limit passed to getAllVocabulary
MaxSlice == 2
\* candidate records in a JSON import file
MaxImport == 4
\* data lines in a CSV import file
MaxCsvLines == 2
\* an import is issued on a table of at most this many entries
MaxExisting == 1
\* recordLearningSession is called on a store of fewer sessions than this,
\* next to at most MaxSessWords addVocabulary calls
MaxSessions == 3
MaxSessWords == 2
\* with a disk that can refuse writes: addVocabulary calls in one run, and the
\* largest category and session counter at which one more is added
MaxFail == 1
\* with backups: addVocabulary calls in one run, and the length up to which
\* the categories and the sessions are grown
MaxBackupAdds == 1
MaxFrameAdds == 1
MaxFrameSessions == 2
MaxCalls == 3
\* with updates: addVocabulary calls in one run
MaxUpdateAdds == 2
\* with searches: addVocabulary calls in one run
MaxSearchAdds == 2
\* after a load: the categories table is grown up to this length
MaxLoad == 2
\* db-add-vocabulary is issued while the vocabulary counter is at most this
MaxMgrVocab == 3
\* the remote index answers a page request with a total of at most this
MaxTotal == 25
\* page sizes 1 .. MaxSize and pages 0 .. MaxPage are asked for
MaxSize == 10
MaxPage == 2
\* a session asks for 1 .. MaxCount words of an index of at most MaxSessionTotal
MaxCount == 2
MaxSessionTotal == 3
MaxRandom == 3

(***************************************************************************)
(* JavaScript values.                                                      *)
(***************************************************************************)
\* the value of a missing property / omitted argument
undefined == "<undefined>"
null == "<null>"

\* JS truthiness of a text-or-missing value: '', undefined and null are falsy
Truthy(v) == v # undefined /\ v # null /\ v # ""

\* a || b
Or(a, b) == IF Truthy(a) THEN a ELSE b

\* o.k || 0 for a numeric property
Default0(o, k) == IF k \in DOMAIN o THEN o[k] ELSE 0

\* property access o.k: undefined when the key is not there
Get(o, k) == IF k \in DOMAIN o THEN o[k] ELSE undefined

\* { ...a, ...b }: b's keys over a's
Spread(a, b) == [k \in (DOMAIN a) \cup (DOMAIN b) |-> IF k \in DOMAIN b THEN b[k] ELSE a[k]]

\* Math.max(0, ...s) over a set of integers
MathMax0(S) == IF S = {} THEN 0 ELSE CHOOSE m \in S \cup {0} : \A x \in S \cup {0} : x <= m

Range(s) == {s[i] : i \in 1..Len(s)}

\* Array.prototype.slice(begin, end) for integer arguments (negative ones count
\* from the end), on a 1-based sequence
Clamp(i, n) == IF i < 0 THEN (IF n + i < 0 THEN 0 ELSE n + i) ELSE (IF i > n THEN n ELSE i)

slice(s, begin, end) == SubSeq(s, Clamp(begin, Len(s)) + 1, Clamp(end, Len(s)))

\* JSON.stringify then JSON.parse of one object: a property whose value is
\* undefined is not written, so it is absent after the round trip
\* (only the text properties can hold undefined in this model)
TextKeys == {"english", "vietnamese", "category"}

JsonObject(o) == [k \in {j \in DOMAIN o : j \notin TextKeys \/ o[j] # undefined} |-> o[k]]

JsonList(s) == [i \in 1..Len(s) |-> JsonObject(s[i])]

(***************************************************************************)
(* The store document.                                                     *)
(***************************************************************************)
Tables == {"vocabulary", "categories", "sessions", "settings"}

ListTables == {"vocabulary", "categories", "sessions"}

\* the empty settings mapping {}
EmptyMap == [k \in {} |-> undefined]

\* the constructor's this.data
DefaultData == [vocabulary |-> <<>>, categories |-> <<>>, sessions |-> <<>>, settings |-> EmptyMap]

\* the constructor's this.nextIds
DefaultNextIds == [vocabulary |-> 1, categories |-> 1, sessions |-> 1]

\* a table of a parsed file that holds a JSON object where a list belongs,
\* as in {"vocabulary": {"object": true}}: it has no map, filter, find or push
NotAList == <<[object |-> TRUE]>>

IsArray(x) == x # NotAList

\* JSON.stringify(this.data) as JSON.parse gives it back
JsonDocument(d) ==
    [t \in DOMAIN d |-> IF t \notin ListTables THEN JsonObject(d[t])
                         ELSE IF IsArray(d[t]) THEN JsonList(d[t])
                         ELSE d[t]]

\* file contents: no file, a file that is not JSON, or a JSON document
NoFile == [kind |-> "absent"]

Garbage == [kind |-> "garbage"]

JsonFile(doc) == [kind |-> "json", doc |-> doc]

DbPath == "learning-english.json"

(***************************************************************************)
(* State.                                                                  *)
(***************************************************************************)
VARIABLES
    data,          \* JSONDatabase.data (the four tables)
    nextIds,       \* JSONDatabase.nextIds
    dbPath,        \* JSONDatabase.dbPath (undefined until initialize)
    isConnected,   \* JSONDatabase.isConnected
    file,          \* the content of the file at DbPath
    writable,      \* fs.writeFile on DbPath succeeds (environment)
    lastOp,        \* the last call, its arguments and what it returned
    assignLog,     \* every id addVocabulary returned, in call order
    initMark,      \* Len(assignLog) when the store instance was last (re)loaded
    initEmpty,     \* the vocabulary table was empty after that load
    closeSnap,     \* the vocabulary table flushed by close, until the next call
    db,               \* DatabaseManager.db: null, or the store instance above
    mgrIsInitialized, \* DatabaseManager.isInitialized
    lifecycle,        \* what the manager was last told: its state-machine state
    apiIsInitialized, \* VocabularyAPI.isInitialized
    pending,          \* the facade call in flight, with what the index will answer it
    backup,           \* the file at the backup path, and the tables when it was taken
    tasks,            \* the store calls issued so far, oldest first, each at its await
    writes            \* the fs.writeFile calls of those: how many began, which landed

storeVars == <<data, nextIds, dbPath, isConnected, file>>

histVars == <<assignLog, initMark, initEmpty, closeSnap>>

mgrVars == <<db, mgrIsInitialized, lifecycle>>

apiVars == <<apiIsInitialized, pending>>

ioVars == <<backup, tasks, writes>>

vars == <<storeVars, writable, lastOp, histVars, mgrVars, apiVars, ioVars>>

\* the store instance as one value
Store == [data |-> data, nextIds |-> nextIds, dbPath |-> dbPath, isConnected |-> isConnected]

NewStore == [data |-> DefaultData, nextIds |-> DefaultNextIds, dbPath |-> undefined, isConnected |-> FALSE]

(***************************************************************************)
(* JSONDatabase methods, as functions of the store instance s and the file *)
(* content f.  Each returns the store and the file after the call and the  *)
(* value the call resolves to.  ok: the fs.writeFile of this call succeeds.*)
(***************************************************************************)
\* w.id || 0
IdOf(e) == IF "id" \in DOMAIN e THEN e.id ELSE 0

\* the id of the table's last record (0 for an empty table): the caller
\* removes the records from the end
LastId(list) == IF Len(list) = 0 THEN 0 ELSE IdOf(list[Len(list)])

Ids(list) == {IdOf(list[i]) : i \in 1..Len(list)}

\* Array.prototype.findIndex(x => x.id === id), 1-based, 0 for "not found" (-1)
findIndex(list, id) ==
    IF \E i \in 1..Len(list) : IdOf(list[i]) = id
    THEN CHOOSE i \in 1..Len(list) : IdOf(list[i]) = id /\ \A j \in 1..(i - 1) : IdOf(list[j]) # id
    ELSE 0

\* Array.prototype.splice(index, 1)
splice(list, index) == SubSeq(list, 1, index - 1) \o SubSeq(list, index + 1, Len(list))

saveData(s, f, ok) ==
    IF s.dbPath = undefined THEN [file |-> f, ret |-> FALSE]
    ELSE IF ok THEN [file |-> JsonFile(JsonDocument(s.data)), ret |-> TRUE]
    ELSE [file |-> f, ret |-> FALSE]

\* a slip of NextIdsOf: the table's length + 1 instead of its largest id + 1
NextIdsOf_byLength(d) == [t \in ListTables |-> Len(d[t]) + 1]

\* the next-id recomputation of initialize
NextIdsOf(d) == [t \in ListTables |-> MathMax0(Ids(d[t])) + 1]

\* the order in which initialize recomputes the counters
LoadOrder == [vocabulary |-> 1, categories |-> 2, sessions |-> 3]

\* the merged data is assigned before the counters are recomputed; .map on a
\* table that is not a list throws, which leaves the later counters as they
\* were and takes the catch branch that saves
initialize(s, f, mkdirOk, ok) ==
    LET s1 == [s EXCEPT !.dbPath = DbPath]
    IN  IF ~mkdirOk THEN [store |-> s1, file |-> f, ret |-> FALSE]
        ELSE IF f.kind = "json"
        THEN LET d == Spread(s1.data, f.doc)
                 bad == {t \in ListTables : ~IsArray(d[t])}
             IN  IF bad = {}
                 THEN [store |-> [s1 EXCEPT !.data = d, !.nextIds = NextIdsOf(d), !.isConnected = TRUE],
                       file |-> f, ret |-> TRUE]
                 ELSE LET done == {t \in ListTables : \A b \in bad : LoadOrder[t] < LoadOrder[b]}
                          ids == [t \in ListTables |->
                                    IF t \in done THEN MathMax0(Ids(d[t])) + 1 ELSE s1.nextIds[t]]
                          s2 == [s1 EXCEPT !.data = d, !.nextIds = ids]
                      IN  [store |-> [s2 EXCEPT !.isConnected = TRUE],
                           file |-> saveData(s2, f, ok).file, ret |-> TRUE]
        ELSE [store |-> [s1 EXCEPT !.isConnected = TRUE],
              file |-> saveData(s1, f, ok).file, ret |-> TRUE]

\* fs.copyFile(this.dbPath, backupPath): b is the file at backupPath; the copy
\* throws when dbPath is still undefined or no file is there
backupFile(s, f, b) ==
    IF s.dbPath = undefined \/ f.kind = "absent"
    THEN [backup |-> b, ret |-> FALSE]
    ELSE [backup |-> f, ret |-> TRUE]

\* fs.copyFile(backupPath, this.dbPath), then initialize(this.dbPath) on this
\* same instance; source is the file at backupPath
restore(s, f, source, mkdirOk, ok) ==
    IF s.dbPath = undefined \/ source.kind = "absent" \/ ~ok
    THEN [store |-> s, file |-> f, ret |-> FALSE]
    ELSE initialize(s, source, mkdirOk, ok)

close(s, f, ok) ==
    IF s.isConnected
    THEN [store |-> [s EXCEPT !.isConnected = FALSE], file |-> saveData(s, f, ok).file]
    ELSE [store |-> s, file |-> f]

\* a slip of addVocabulary: the id is recomputed from the table (max + 1)
\* instead of taken from the counter
addVocabulary_maxPlusOne(s, f, word, ok) ==
    LET newWord == [id |-> MathMax0(Ids(s.data.vocabulary)) + 1,
                    english |-> Get(word, "english"),
                    vietnamese |-> Get(word, "vietnamese"),
                    type |-> Or(Get(word, "type"), "unknown"),
                    category |-> Or(Get(word, "category"), "general"),
                    masteryLevel |-> 0,
                    reviewCount |-> 0]
        s1 == [s EXCEPT !.nextIds.vocabulary = newWord.id + 1,
                        !.data.vocabulary = Append(@, newWord)]
    IN  [store |-> s1, file |-> saveData(s1, f, ok).file, ret |-> newWord.id]

addVocabulary(s, f, word, ok) ==
    LET newWord == [id |-> s.nextIds.vocabulary,
                    english |-> Get(word, "english"),
                    vietnamese |-> Get(word, "vietnamese"),
                    type |-> Or(Get(word, "type"), "unknown"),
                    category |-> Or(Get(word, "category"), "general"),
                    masteryLevel |-> 0,
                    reviewCount |-> 0]
        s1 == [s EXCEPT !.nextIds.vocabulary = @ + 1,
                        !.data.vocabulary = Append(@, newWord)]
    IN  [store |-> s1, file |-> saveData(s1, f, ok).file, ret |-> newWord.id]

getVocabularyById(s, wordId) ==
    LET i == findIndex(s.data.vocabulary, wordId)
    IN  IF i = 0 THEN null ELSE s.data.vocabulary[i]

\* String.prototype.toLowerCase on the texts used here
toLowerCase(text) == IF text = "DOG" THEN "dog" ELSE text

\* String.prototype.includes on the texts used here
includes(text, term) == term = text \/ <<text, term>> \in {<<"hello", "ell">>, <<"xin chao", "chao">>}

\* a value with a toLowerCase method
IsText(v) == v \notin {undefined, null}

TypeError == [threw |-> TRUE]

\* the filter callback evaluates english, vietnamese and type from left to
\* right and stops at the first that matches; calling toLowerCase on a
\* property that is undefined or null throws, and nothing catches it (the
\* example property is read under a guard and is left out)
searchVocabulary(s, query) ==
    LET searchTerm == toLowerCase(query)
        hit(word, k) == includes(toLowerCase(Get(word, k)), searchTerm)
        throws(word) ==
            \/ ~IsText(Get(word, "english"))
            \/ /\ ~hit(word, "english")
               /\ \/ ~IsText(Get(word, "vietnamese"))
                  \/ ~hit(word, "vietnamese") /\ ~IsText(Get(word, "type"))
        keeps(word) == hit(word, "english") \/ hit(word, "vietnamese") \/ hit(word, "type")
    IN  IF \E i \in 1..Len(s.data.vocabulary) : throws(s.data.vocabulary[i])
        THEN TypeError
        ELSE [threw |-> FALSE, ret |-> SelectSeq(s.data.vocabulary, keeps)]

\* options: a record with any of the keys category, offset, limit
getAllVocabulary(s, options) ==
    LET result == s.data.vocabulary
        filtered == IF Truthy(Get(options, "category"))
                    THEN SelectSeq(result, LAMBDA word : Get(word, "category") = options.category)
                    ELSE result
        dropped == IF "offset" \in DOMAIN options /\ options.offset # 0
                   THEN slice(filtered, options.offset, Len(filtered))
                   ELSE filtered
    IN  IF "limit" \in DOMAIN options /\ options.limit # 0
        THEN slice(dropped, 0, options.limit)
        ELSE dropped

\* a slip of updateVocabulary: the id of the updates wins
updateVocabulary_idFromUpdates(s, f, wordId, updates, ok) ==
    LET wordIndex == findIndex(s.data.vocabulary, wordId)
    IN  IF wordIndex = 0 THEN [store |-> s, file |-> f, ret |-> FALSE]
        ELSE LET merged == Spread(s.data.vocabulary[wordIndex], updates)
                 s1 == [s EXCEPT !.data.vocabulary[wordIndex] = merged]
             IN  [store |-> s1, file |-> saveData(s1, f, ok).file, ret |-> TRUE]

updateVocabulary(s, f, wordId, updates, ok) ==
    LET wordIndex == findIndex(s.data.vocabulary, wordId)
    IN  IF wordIndex = 0 THEN [store |-> s, file |-> f, ret |-> FALSE]
        ELSE LET merged == Spread(Spread(s.data.vocabulary[wordIndex], updates), [id |-> wordId])
                 s1 == [s EXCEPT !.data.vocabulary[wordIndex] = merged]
             IN  [store |-> s1, file |-> saveData(s1, f, ok).file, ret |-> TRUE]

\* a slip of deleteVocabulary: no check of findIndex's -1, so splice(-1, 1)
\* removes the last entry
deleteVocabulary_noCheck(s, f, wordId, ok) ==
    LET wordIndex == findIndex(s.data.vocabulary, wordId)
        at == IF wordIndex = 0 THEN Len(s.data.vocabulary) ELSE wordIndex
        s1 == [s EXCEPT !.data.vocabulary = splice(@, at)]
    IN  [store |-> s1, file |-> saveData(s1, f, ok).file, ret |-> TRUE]

\* a deleteVocabulary that removes the sessions of the deleted entry with it
deleteVocabulary_cascade(s, f, wordId, ok) ==
    LET wordIndex == findIndex(s.data.vocabulary, wordId)
    IN  IF wordIndex = 0 THEN [store |-> s, file |-> f, ret |-> FALSE]
        ELSE LET s1 == [s EXCEPT !.data.vocabulary = splice(@, wordIndex),
                                 !.data.sessions = SelectSeq(@, LAMBDA x : x.wordId # wordId)]
             IN  [store |-> s1, file |-> saveData(s1, f, ok).file, ret |-> TRUE]

deleteVocabulary(s, f, wordId, ok) ==
    LET wordIndex == findIndex(s.data.vocabulary, wordId)
    IN  IF wordIndex = 0 THEN [store |-> s, file |-> f, ret |-> FALSE]
        ELSE LET s1 == [s EXCEPT !.data.vocabulary = splice(@, wordIndex)]
             IN  [store |-> s1, file |-> saveData(s1, f, ok).file, ret |-> TRUE]

\* The import file: [format, kind, words | lines].  kind "absent": readFile
\* throws; "garbage": JSON.parse throws; "json": a parsed array of records;
\* "text": the lines of a CSV file, each already split at ','.
Col(line, i) == IF i <= Len(line) THEN line[i] ELSE undefined

\* fileContent.split('\n').slice(1).map(line => ...)
csvWords(lines) ==
    [i \in 1..(Len(lines) - 1) |->
        [english |-> Col(lines[i + 1], 1),
         vietnamese |-> Col(lines[i + 1], 2),
         category |-> Col(lines[i + 1], 6)]]

\* a slip of importLoop: a record that fails validation ends the loop
RECURSIVE importLoop_abortOnInvalid(_, _, _, _, _, _)
importLoop_abortOnInvalid(s, f, words, i, imported, ok) ==
    IF i > Len(words)
    THEN [store |-> s, file |-> f, ret |-> [imported |-> imported, total |-> Len(words)]]
    ELSE IF Truthy(Get(words[i], "english")) /\ Truthy(Get(words[i], "vietnamese"))
    THEN LET r == addVocabulary(s, f, words[i], ok)
         IN  importLoop_abortOnInvalid(r.store, r.file, words, i + 1, imported + 1, ok)
    ELSE [store |-> s, file |-> f, ret |-> [imported |-> imported, total |-> Len(words)]]

\* the loop of importVocabulary over words[i..], imported so far
RECURSIVE importLoop(_, _, _, _, _, _)
importLoop(s, f, words, i, imported, ok) ==
    IF i > Len(words)
    THEN [store |-> s, file |-> f, ret |-> [imported |-> imported, total |-> Len(words)]]
    ELSE IF Truthy(Get(words[i], "english")) /\ Truthy(Get(words[i], "vietnamese"))
    THEN LET r == addVocabulary(s, f, words[i], ok)
         IN  importLoop(r.store, r.file, words, i + 1, imported + 1, ok)
    ELSE importLoop(s, f, words, i + 1, imported, ok)

importVocabulary(s, f, payload, ok) ==
    IF payload.kind \in {"absent", "garbage"}
    THEN [store |-> s, file |-> f, ret |-> [imported |-> 0, total |-> 0, error |-> payload.kind]]
    ELSE LET words == IF payload.format = "json" THEN payload.words
                      ELSE IF payload.format = "csv" THEN csvWords(payload.lines)
                      ELSE <<>>
         IN  importLoop(s, f, words, 1, 0, ok)

\* a / b as JavaScript computes it, kept as the pair: den = 0 is NaN or Infinity
Div(a, b) == [num |-> a, den |-> b]

\* the literal 0 the ratios fall back to
Zero == Div(0, 1)

RECURSIVE Sum(_, _)
Sum(list, k) == IF Len(list) = 0 THEN 0 ELSE list[1][k] + Sum(Tail(list), k)

\* session: what the caller passes; timestamp: new Date() at the call
\* a slip of recordLearningSession: the word's reviewCount is left alone
recordLearningSession_noReview(s, f, session, timestamp, ok) ==
    LET newSession == [id |-> s.nextIds.sessions, wordId |-> session.wordId, correct |-> session.correct,
                       responseTime |-> session.responseTime,
                       sessionType |-> Or(Get(session, "sessionType"), "flashcard"),
                       timestamp |-> timestamp]
        s1 == [s EXCEPT !.nextIds.sessions = @ + 1, !.data.sessions = Append(@, newSession)]
    IN  [store |-> s1, file |-> saveData(s1, f, ok).file, ret |-> newSession.id]

recordLearningSession(s, f, session, timestamp, ok) ==
    LET newSession == [id |-> s.nextIds.sessions, wordId |-> session.wordId, correct |-> session.correct,
                       responseTime |-> session.responseTime,
                       sessionType |-> Or(Get(session, "sessionType"), "flashcard"),
                       timestamp |-> timestamp]
        s1 == [s EXCEPT !.nextIds.sessions = @ + 1, !.data.sessions = Append(@, newSession)]
        i == findIndex(s1.data.vocabulary, session.wordId)
        u == IF i # 0
             THEN updateVocabulary(s1, f, session.wordId,
                                   [reviewCount |-> Default0(s1.data.vocabulary[i], "reviewCount") + 1], ok)
             ELSE [store |-> s1, file |-> f]
    IN  [store |-> u.store, file |-> saveData(u.store, u.file, ok).file, ret |-> newSession.id]

\* a slip of getWordStatistics: the first session's timestamp, not the last's
getWordStatistics_firstSession(s, wordId) ==
    LET sessions == SelectSeq(s.data.sessions, LAMBDA x : x.wordId = wordId)
        totalSessions == Len(sessions)
        correctSessions == Len(SelectSeq(sessions, LAMBDA x : x.correct))
    IN  [totalSessions |-> totalSessions,
         correctSessions |-> correctSessions,
         accuracy |-> IF totalSessions > 0 THEN Div(correctSessions, totalSessions) ELSE Zero,
         averageResponseTime |-> IF Len(sessions) > 0 THEN Div(Sum(sessions, "responseTime"), Len(sessions))
                                 ELSE Zero,
         lastSession |-> IF Len(sessions) > 0 THEN <<sessions[1].timestamp>> ELSE <<>>]

\* lastSession: <<timestamp>>, or <<>> for null
getWordStatistics(s, wordId) ==
    LET sessions == SelectSeq(s.data.sessions, LAMBDA x : x.wordId = wordId)
        totalSessions == Len(sessions)
        correctSessions == Len(SelectSeq(sessions, LAMBDA x : x.correct))
    IN  [totalSessions |-> totalSessions,
         correctSessions |-> correctSessions,
         accuracy |-> IF totalSessions > 0 THEN Div(correctSessions, totalSessions) ELSE Zero,
         averageResponseTime |-> IF Len(sessions) > 0 THEN Div(Sum(sessions, "responseTime"), Len(sessions))
                                 ELSE Zero,
         lastSession |-> IF Len(sessions) > 0 THEN <<sessions[Len(sessions)].timestamp>> ELSE <<>>]

\* w.masteryLevel >= 4: false for an entry that has no masteryLevel
Mastered(w) == "masteryLevel" \in DOMAIN w /\ w.masteryLevel >= 4

\* a slip of getOverallProgress: the ratios are divided without the > 0 guards
getOverallProgress_noGuard(s) ==
    LET totalWords == Len(s.data.vocabulary)
        totalSessions == Len(s.data.sessions)
        correctSessions == Len(SelectSeq(s.data.sessions, LAMBDA x : x.correct))
        masteredWords == Len(SelectSeq(s.data.vocabulary, Mastered))
    IN  [totalWords |-> totalWords, masteredWords |-> masteredWords,
         totalSessions |-> totalSessions, correctSessions |-> correctSessions,
         overallAccuracy |-> Div(correctSessions, totalSessions),
         masteryPercentage |-> Div(masteredWords, totalWords)]

getOverallProgress(s) ==
    LET totalWords == Len(s.data.vocabulary)
        totalSessions == Len(s.data.sessions)
        correctSessions == Len(SelectSeq(s.data.sessions, LAMBDA x : x.correct))
        masteredWords == Len(SelectSeq(s.data.vocabulary, Mastered))
    IN  [totalWords |-> totalWords, masteredWords |-> masteredWords,
         totalSessions |-> totalSessions, correctSessions |-> correctSessions,
         overallAccuracy |-> IF totalSessions > 0 THEN Div(correctSessions, totalSessions) ELSE Zero,
         masteryPercentage |-> IF totalWords > 0 THEN Div(masteredWords, totalWords) ELSE Zero]

updateWordMastery(s, f, wordId, masteryLevel, ok) ==
    updateVocabulary(s, f, wordId, [masteryLevel |-> masteryLevel], ok)

addCategory(s, f, category, ok) ==
    LET newCategory == [id |-> s.nextIds.categories, name |-> Get(category, "name")]
        s1 == [s EXCEPT !.nextIds.categories = @ + 1,
                        !.data.categories = Append(@, newCategory)]
    IN  [store |-> s1, file |-> saveData(s1, f, ok).file, ret |-> newCategory.id]

getAllCategories(s) == s.data.categories

\* a slip of updateCategory: the merge is undone when the write fails
updateCategory_rollback(s, f, categoryId, updates, ok) ==
    LET categoryIndex == findIndex(s.data.categories, categoryId)
    IN  IF categoryIndex = 0 \/ ~ok THEN [store |-> s, file |-> f, ret |-> FALSE]
        ELSE LET merged == Spread(Spread(s.data.categories[categoryIndex], updates), [id |-> categoryId])
                 s1 == [s EXCEPT !.data.categories[categoryIndex] = merged]
             IN  [store |-> s1, file |-> saveData(s1, f, ok).file, ret |-> TRUE]

updateCategory(s, f, categoryId, updates, ok) ==
    LET categoryIndex == findIndex(s.data.categories, categoryId)
    IN  IF categoryIndex = 0 THEN [store |-> s, file |-> f, ret |-> FALSE]
        ELSE LET merged == Spread(Spread(s.data.categories[categoryIndex], updates), [id |-> categoryId])
                 s1 == [s EXCEPT !.data.categories[categoryIndex] = merged]
             IN  [store |-> s1, file |-> saveData(s1, f, ok).file, ret |-> TRUE]

deleteCategory(s, f, categoryId, ok) ==
    LET categoryIndex == findIndex(s.data.categories, categoryId)
    IN  IF categoryIndex = 0 THEN [store |-> s, file |-> f, ret |-> FALSE]
        ELSE LET s1 == [s EXCEPT !.data.categories = splice(@, categoryIndex)]
             IN  [store |-> s1, file |-> saveData(s1, f, ok).file, ret |-> TRUE]

\* this.data.settings[key] = value
saveSetting(s, f, key, value, ok) ==
    LET s1 == [s EXCEPT !.data.settings = Spread(@, [k \in {key} |-> value])]
    IN  [store |-> s1, file |-> saveData(s1, f, ok).file, ret |-> TRUE]

getAllSettings(s) == s.data.settings

(***************************************************************************)
(* DatabaseManager.  m is the manager, [db, isInitialized]; the store      *)
(* instance it holds is s.                                                 *)
(***************************************************************************)
NewManager == [db |-> null, isInitialized |-> FALSE]

TheStore == "JSONDatabase"

\* the seed data of initializeDefaultData
DefaultCategories ==
    << [name |-> "Basic"], [name |-> "Travel"], [name |-> "Food"], [name |-> "Work"], [name |-> "Family"] >>

sampleWords ==
    << [english |-> "Hello", vietnamese |-> "Xin chao", type |-> "interjection", category |-> "Basic"],
       [english |-> "Thank you", vietnamese |-> "Cam on", type |-> "phrase", category |-> "Basic"],
       [english |-> "Beautiful", vietnamese |-> "Dep", type |-> "adjective", category |-> "Basic"] >>

DefaultSettings ==
    << [key |-> "theme", value |-> "light"],
       [key |-> "language", value |-> "en"],
       [key |-> "autoPlay", value |-> TRUE],
       [key |-> "showPhonetic", value |-> TRUE],
       [key |-> "cardsPerSession", value |-> 10] >>

\* await this.db.addCategory(...) for each of list[i..]
RECURSIVE addCategories(_, _, _, _, _)
addCategories(s, f, list, i, ok) ==
    IF i > Len(list) THEN [store |-> s, file |-> f]
    ELSE LET r == addCategory(s, f, list[i], ok)
         IN  addCategories(r.store, r.file, list, i + 1, ok)

RECURSIVE addWords(_, _, _, _, _)
addWords(s, f, list, i, ok) ==
    IF i > Len(list) THEN [store |-> s, file |-> f]
    ELSE LET r == addVocabulary(s, f, list[i], ok)
         IN  addWords(r.store, r.file, list, i + 1, ok)

\* a seeding loop that leaves out the last setting of the list
RECURSIVE saveSettings_butLast(_, _, _, _, _)
saveSettings_butLast(s, f, list, i, ok) ==
    IF i > Len(list) - 1 THEN [store |-> s, file |-> f]
    ELSE LET r == saveSetting(s, f, list[i].key, list[i].value, ok)
         IN  saveSettings_butLast(r.store, r.file, list, i + 1, ok)

RECURSIVE saveSettings(_, _, _, _, _)
saveSettings(s, f, list, i, ok) ==
    IF i > Len(list) THEN [store |-> s, file |-> f]
    ELSE LET r == saveSetting(s, f, list[i].key, list[i].value, ok)
         IN  saveSettings(r.store, r.file, list, i + 1, ok)

\* a seeding that does not look at the tables
initializeDefaultData_always(s, f, ok) ==
    LET c == addCategories(s, f, DefaultCategories, 1, ok)
        v == addWords(c.store, c.file, sampleWords, 1, ok)
    IN  saveSettings(v.store, v.file, DefaultSettings, 1, ok)

initializeDefaultData(s, f, ok) ==
    LET c == IF Len(getAllCategories(s)) = 0
             THEN addCategories(s, f, DefaultCategories, 1, ok)
             ELSE [store |-> s, file |-> f]
        v == IF Len(getAllVocabulary(c.store, EmptyMap)) = 0
             THEN addWords(c.store, c.file, sampleWords, 1, ok)
             ELSE c
    IN  IF DOMAIN getAllSettings(v.store) = {}
        THEN saveSettings(v.store, v.file, DefaultSettings, 1, ok)
        ELSE v

\* a manager that falls back to the file store for a kind it does not know
mgrInitialize_fallback(m, s, f, dbType, mkdirOk, ok) ==
    LET r == initialize(NewStore, f, mkdirOk, ok)
        m1 == [m EXCEPT !.db = TheStore]
    IN  IF ~r.ret
        THEN [mgr |-> [m1 EXCEPT !.isInitialized = FALSE], store |-> r.store, file |-> r.file,
              ret |-> FALSE]
        ELSE LET d == initializeDefaultData(r.store, r.file, ok)
             IN  [mgr |-> [m1 EXCEPT !.isInitialized = TRUE], store |-> d.store, file |-> d.file,
                  ret |-> TRUE]

\* DatabaseManager.initialize(dbType)
mgrInitialize(m, s, f, dbType, mkdirOk, ok) ==
    IF dbType # "json"
    THEN [mgr |-> [m EXCEPT !.isInitialized = FALSE], store |-> s, file |-> f, ret |-> FALSE]
    ELSE LET r == initialize(NewStore, f, mkdirOk, ok)
             m1 == [m EXCEPT !.db = TheStore]
         IN  IF ~r.ret
             THEN [mgr |-> [m1 EXCEPT !.isInitialized = FALSE], store |-> r.store, file |-> r.file,
                   ret |-> FALSE]
             ELSE LET d == initializeDefaultData(r.store, r.file, ok)
                  IN  [mgr |-> [m1 EXCEPT !.isInitialized = TRUE], store |-> d.store, file |-> d.file,
                       ret |-> TRUE]

\* DatabaseManager.getDatabase(): the handle, or the not-initialized error
NotInitializedError == "Database not initialized. Call initialize() first."

\* a getDatabase that looks at the handle alone
getDatabase_dbOnly(m) == IF m.db = null THEN NotInitializedError ELSE m.db

getDatabase(m) == IF ~m.isInitialized \/ m.db = null THEN NotInitializedError ELSE m.db

mgrClose(m, s, f, ok) ==
    IF m.db # null
    THEN LET r == close(s, f, ok)
         IN  [mgr |-> [db |-> null, isInitialized |-> FALSE], store |-> r.store, file |-> r.file]
    ELSE [mgr |-> m, store |-> s, file |-> f]

(***************************************************************************)
(* SolrService.  The remote index belongs to another process: what it      *)
(* answers to one request is remote = [up, numFound], up FALSE for a       *)
(* request that fails in transport or with an error status.  A field of a  *)
(* remote document is an array or a single value.                          *)
(***************************************************************************)
Arr(items) == [isArray |-> TRUE, items |-> items]

Str(v) == [isArray |-> FALSE, value |-> v]

\* the documents of the index, in id order
Doc(n) ==
    IF n % 2 = 1
    THEN [id |-> n, word |-> Arr(<<"hi", "hello">>), meaning_vi |-> Arr(<<"xin chao", "chao">>),
          note |-> Arr(<<"Basic">>), _version_ |-> 100 + n]
    ELSE [id |-> n, word |-> Str("dog"), meaning_vi |-> Str("cho"), note |-> Str(undefined),
          _version_ |-> 100 + n]

Min(a, b) == IF a < b THEN a ELSE b

Max(a, b) == IF a > b THEN a ELSE b

\* response.docs of a select with the given start and rows
Docs(numFound, start, rows) == [i \in 1..Max(0, Min(rows, numFound - start)) |-> Doc(start + i)]

\* o.k with its default
Default(o, k, d) == IF k \in DOMAIN o THEN o[k] ELSE d

MatchAll == [match |-> "*:*"]

\* the params of the select request that searchVocabulary sends
solr_params(options) ==
    [q |-> Default(options, "query", MatchAll),
     rows |-> Default(options, "rows", 10),
     start |-> Default(options, "start", 0),
     sort |-> Default(options, "sort", "word asc"),
     fq |-> Default(options, "filters", EmptyMap)]

NetworkError == "Network Error"

solr_searchVocabulary(remote, options) ==
    LET params == solr_params(options)
    IN  IF remote.up
        THEN [success |-> TRUE, data |-> Docs(remote.numFound, params.start, params.rows),
              total |-> remote.numFound, start |-> params.start, query |-> params.q, facets |-> null]
        ELSE [success |-> FALSE, error |-> NetworkError, data |-> <<>>, total |-> 0]

solr_getVocabularyById(remote, id) ==
    LET response == solr_searchVocabulary(remote, [query |-> [id |-> id], rows |-> 1])
    IN  IF response.success /\ Len(response.data) > 0
        THEN [success |-> TRUE, data |-> response.data[1]]
        ELSE [success |-> FALSE, error |-> "Vocabulary not found", data |-> null]

\* an offset drawn over the whole result instead of the part the count leaves
randomStart_overTotal(total, count, random) == (random * Max(1, total)) \div (MaxRandom + 1)

\* Math.floor(Math.random() * Math.max(1, total - count)), where Math.random()
\* gave random / (MaxRandom + 1), a value in [0, 1)
randomStart(total, count, random) == (random * Max(1, total - count)) \div (MaxRandom + 1)

\* the requests getRandomVocabulary hands to searchVocabulary, in order
solr_randomRequests(remote1, count, filters, random) ==
    LET first == [query |-> MatchAll, rows |-> 0, filters |-> filters]
        totalResponse == solr_searchVocabulary(remote1, first)
    IN  IF ~totalResponse.success \/ totalResponse.total = 0
        THEN <<first>>
        ELSE <<first, [query |-> MatchAll, rows |-> count,
                       start |-> randomStart(totalResponse.total, count, random),
                       sort |-> "random desc", filters |-> filters]>>

\* random: the outcome of Math.random(), as in randomStart
solr_getRandomVocabulary(remote1, remote2, count, filters, random) ==
    LET requests == solr_randomRequests(remote1, count, filters, random)
    IN  IF Len(requests) = 1
        THEN [success |-> FALSE, error |-> "No vocabulary found", data |-> <<>>]
        ELSE solr_searchVocabulary(remote2, requests[2])

solr_addVocabulary(remote, vocabulary) ==
    IF remote.up
    THEN [success |-> TRUE, data |-> vocabulary, message |-> "Vocabulary added successfully"]
    ELSE [success |-> FALSE, error |-> NetworkError]

\* searchVocabulary does not throw and the select carries no facet request
solr_getStatistics(remote) ==
    LET response == solr_searchVocabulary(remote, [query |-> MatchAll, rows |-> 0])
    IN  [success |-> TRUE, data |-> [total |-> response.total, categories |-> <<>>]]

\* ping = [threw, status]: the outcome of GET admin/ping
solr_isAvailable(ping) == IF ping.threw THEN FALSE ELSE ping.status = 200

(***************************************************************************)
(* VocabularyAPI, the facade over SolrService.  A method gives             *)
(* [threw, ret]: ret is the envelope it returns when it does not throw.    *)
(***************************************************************************)
Returns(envelope) == [threw |-> FALSE, ret |-> envelope]

Throws == [threw |-> TRUE]

NotAvailableError == "Solr service not available"

\* the options argument null: destructuring it throws a TypeError
NullOptions == [isNull |-> TRUE]

\* a facade that is ready as soon as the ping was answered at all
api_initialize_anyAnswer(ping) == ~ping.threw

api_initialize(ping) == solr_isAvailable(ping)

api_isReady(isInitialized) == isInitialized

\* Array.isArray(v) ? v[0] : v
First(v) == IF v.isArray THEN (IF Len(v.items) = 0 THEN undefined ELSE v.items[1]) ELSE v.value

\* Array.prototype.join(', ')
RECURSIVE join(_)
join(items) ==
    IF Len(items) = 0 THEN ""
    ELSE IF Len(items) = 1 THEN items[1]
    ELSE items[1] \o ", " \o join(Tail(items))

\* Array.isArray(v) ? v.join(', ') : v
Joined(v) == IF v.isArray THEN join(v.items) ELSE v.value

\* v || []
OrEmpty(v) == IF v.isArray \/ Truthy(v.value) THEN v ELSE Arr(<<>>)

\* the record of a listing
Listed(doc) ==
    [id |-> doc.id, english |-> First(doc.word), vietnamese |-> First(doc.meaning_vi),
     note |-> First(doc.note), allMeanings |-> OrEmpty(doc.meaning_vi), allWords |-> OrEmpty(doc.word),
     version |-> doc._version_]

\* the record of a search or a lookup
Found(doc) ==
    [id |-> doc.id, english |-> Joined(doc.word), vietnamese |-> Joined(doc.meaning_vi),
     note |-> Joined(doc.note), allMeanings |-> OrEmpty(doc.meaning_vi), allWords |-> OrEmpty(doc.word)]

Filters(options) ==
    IF Truthy(Default(options, "category", null)) THEN [note |-> options.category] ELSE EmptyMap

\* the options getVocabularyPaginated passes to the service
api_paginatedRequest(options) ==
    LET page == Default(options, "page", 0)
        size == Default(options, "size", 10)
    IN  [query |-> MatchAll, rows |-> size, start |-> page * size, sort |-> "id asc",
         filters |-> Filters(options)]

\* Math.ceil(a / b) for a >= 0, b >= 1
ceil(a, b) == (a + b - 1) \div b

\* a pagination block whose hasNext also holds on the last page
pagination_inclusive(page, size, total) ==
    [page |-> page, size |-> size, total |-> total, totalPages |-> ceil(total, size),
     hasNext |-> (page + 1) * size <= total, hasPrevious |-> page > 0]

pagination(page, size, total) ==
    [page |-> page, size |-> size, total |-> total, totalPages |-> ceil(total, size),
     hasNext |-> (page + 1) * size < total, hasPrevious |-> page > 0]

api_getVocabularyPaginated(isInitialized, options, remote) ==
    IF ~isInitialized
    THEN Returns([success |-> FALSE, error |-> NotAvailableError, data |-> <<>>])
    ELSE IF options = NullOptions THEN Throws
    ELSE LET result == solr_searchVocabulary(remote, api_paginatedRequest(options))
         IN  IF result.success
             THEN Returns([success |-> TRUE,
                           data |-> [i \in 1..Len(result.data) |-> Listed(result.data[i])],
                           pagination |-> pagination(Default(options, "page", 0),
                                                     Default(options, "size", 10), result.total)])
             ELSE Returns(result)

SessionId == "session_"

api_getVocabularySession(isInitialized, options, remote1, remote2, random) ==
    IF ~isInitialized
    THEN Returns([success |-> FALSE, error |-> NotAvailableError, data |-> <<>>])
    ELSE IF options = NullOptions THEN Throws
    ELSE LET count == Default(options, "count", 10)
             result == IF Default(options, "random", TRUE)
                       THEN solr_getRandomVocabulary(remote1, remote2, count, Filters(options), random)
                       ELSE solr_searchVocabulary(remote1, [query |-> MatchAll, rows |-> count,
                                                            filters |-> Filters(options)])
         IN  IF result.success
             THEN Returns([success |-> TRUE,
                           data |-> [i \in 1..Len(result.data) |-> Listed(result.data[i])],
                           total |-> result.total, sessionId |-> SessionId])
             ELSE Returns(result)

\* the characters escapeQuery puts a backslash before
Special == {"+", "-", "&", "|", "!", "(", ")", "{", "}", "[", "]", "^", "\"", "~", "*", "?", ":", "\\"}

\* text is the sequence of its characters
RECURSIVE escapeQuery(_)
escapeQuery(text) ==
    IF Len(text) = 0 THEN ""
    ELSE (IF Head(text) \in Special THEN "\\" \o Head(text) ELSE Head(text)) \o escapeQuery(Tail(text))

api_searchVocabulary(isInitialized, searchText, options, remote) ==
    IF ~isInitialized
    THEN Returns([success |-> FALSE, error |-> NotAvailableError, data |-> <<>>])
    ELSE IF options = NullOptions THEN Throws
    ELSE LET searchType == Default(options, "searchType", "both")
             query == [fields |-> IF searchType = "english" THEN {"word"}
                                  ELSE IF searchType = "vietnamese" THEN {"meaning_vi"}
                                  ELSE {"word", "meaning_vi"},
                       contains |-> escapeQuery(searchText)]
             result == solr_searchVocabulary(remote, [query |-> query, rows |-> Default(options, "limit", 20),
                                                      sort |-> "_score desc"])
         IN  IF result.success
             THEN Returns([success |-> TRUE,
                           data |-> [i \in 1..Len(result.data) |-> Found(result.data[i])],
                           total |-> result.total, query |-> searchText])
             ELSE Returns(result)

api_getVocabularyById(isInitialized, id, remote) ==
    IF ~isInitialized
    THEN Returns([success |-> FALSE, error |-> NotAvailableError, data |-> null])
    ELSE LET result == solr_getVocabularyById(remote, id)
         IN  IF result.success
             THEN Returns([success |-> TRUE,
                           data |-> Found(result.data) @@ [version |-> result.data._version_]])
             ELSE Returns(result)

\* a getCategories that goes to the service whatever isInitialized is
api_getCategories_noGuard(isInitialized, remote) ==
    Returns([success |-> TRUE, data |-> solr_getStatistics(remote).data.categories])

api_getCategories(isInitialized, remote) ==
    IF ~isInitialized
    THEN Returns([success |-> FALSE, error |-> NotAvailableError, data |-> <<>>])
    ELSE LET stats == solr_getStatistics(remote)
         IN  IF stats.success
             THEN Returns([success |-> TRUE, data |-> stats.data.categories])
             ELSE Returns(stats)

GeneratedId == "generated"

api_addVocabulary(isInitialized, vocabulary, remote) ==
    IF ~isInitialized
    THEN Returns([success |-> FALSE, error |-> NotAvailableError])
    ELSE LET solrDoc == [id |-> Or(Get(vocabulary, "id"), GeneratedId),
                         word |-> Arr(<<Get(vocabulary, "english")>>),
                         meaning_vi |-> Arr(<<Get(vocabulary, "vietnamese")>>),
                         note |-> Arr(<<Or(Get(vocabulary, "note"), "")>>)]
             result == solr_addVocabulary(remote, solrDoc)
         IN  IF result.success
             THEN Returns([success |-> TRUE,
                           data |-> [id |-> result.data.id, english |-> Get(vocabulary, "english"),
                                     vietnamese |-> Get(vocabulary, "vietnamese"),
                                     note |-> Get(vocabulary, "note")],
                           message |-> "Vocabulary added successfully"])
             ELSE Returns(result)

api_getStatistics(isInitialized, remote) ==
    IF ~isInitialized
    THEN Returns([success |-> FALSE, error |-> NotAvailableError,
                  data |-> [total |-> 0, categories |-> <<>>]])
    ELSE Returns(solr_getStatistics(remote))

(***************************************************************************)
(* Inputs.                                                               *)
(***************************************************************************)
\* arguments of addVocabulary and candidate records of an import
Hello == [english |-> "hello", vietnamese |-> "xin chao", category |-> "Basic"]

\* no vietnamese, no category
Dog == [english |-> "dog"]

Words == {Hello, Dog}

\* a record a file can hold already
Bye == [id |-> 2, english |-> "bye", vietnamese |-> "tam biet", type |-> "phrase", category |-> "Travel",
        masteryLevel |-> 0, reviewCount |-> 0]

\* a category of the user's own
Mine == [id |-> 7, name |-> "Mine"]

\* a file the store wrote before
ByeFile ==
    JsonFile([vocabulary |-> <<Bye>>, categories |-> <<Mine>>, sessions |-> <<>>,
              settings |-> [theme |-> "dark"]])

\* a parseable file whose vocabulary table is not a list
ObjectFile == JsonFile([vocabulary |-> NotAList, categories |-> <<Mine>>])

\* what can be at DbPath before the first initialize
InitialFiles ==
    { NoFile,
      Garbage,
      JsonFile([categories |-> <<>>]),
      ByeFile }

\* arguments of updateVocabulary
Updates == { [id |-> 9] }

\* the ids a caller passes: every id assigned so far and one never assigned
WordIds == 1..nextIds.vocabulary

(***************************************************************************)
(* Actions of the store: one call of one method on the store instance.     *)
(***************************************************************************)
NoSnap == [taken |-> FALSE]

TypeOK ==
    /\ DOMAIN data = Tables
    /\ DOMAIN nextIds = ListTables
    /\ dbPath \in {undefined, DbPath}
    /\ isConnected \in BOOLEAN
    /\ writable \in BOOLEAN

\* no facade call in flight
NoCall == [op |-> "none"]

\* a constructed JSONDatabase, manager and facade, nothing initialized yet:
\* files is what can be at DbPath, calls what can be in flight to the facade
InitOf(files, calls) ==
    /\ data = DefaultData
    /\ nextIds = DefaultNextIds
    /\ dbPath = undefined
    /\ isConnected = FALSE
    /\ file \in files
    /\ writable = TRUE
    /\ lastOp = [op |-> "new"]
    /\ assignLog = <<>>
    /\ initMark = 0
    /\ initEmpty = TRUE
    /\ closeSnap = NoSnap
    /\ db = null
    /\ mgrIsInitialized = FALSE
    /\ lifecycle = "Uninitialized"
    /\ apiIsInitialized = FALSE
    /\ pending \in calls
    /\ backup = [file |-> NoFile]
    /\ tasks = <<>>
    /\ writes = [issued |-> 0, landed |-> 0, late |-> FALSE]

Init == InitOf(InitialFiles, {NoCall})

\* the store and the file after a call that returned r
Becomes(r) ==
    /\ data' = r.store.data
    /\ nextIds' = r.store.nextIds
    /\ dbPath' = r.store.dbPath
    /\ isConnected' = r.store.isConnected
    /\ file' = r.file

\* initialize(DbPath) on a new JSONDatabase (fresh) or on this instance again
Initialize(fresh) ==
    LET r == initialize(IF fresh THEN NewStore ELSE Store, file, TRUE, writable)
    IN  /\ Becomes(r)
        /\ lastOp' = [op |-> "initialize", ret |-> r.ret, snap |-> closeSnap]
        /\ initMark' = Len(assignLog)
        /\ initEmpty' = (r.store.data.vocabulary = <<>>)
        /\ closeSnap' = NoSnap
        /\ UNCHANGED <<assignLog, writable, mgrVars, apiVars, ioVars>>

Close ==
    LET r == close(Store, file, writable)
        flushed == isConnected /\ saveData(Store, file, writable).ret
    IN  /\ Becomes([store |-> r.store, file |-> r.file])
        /\ lastOp' = [op |-> "close", flushed |-> flushed]
        /\ closeSnap' = IF flushed THEN [taken |-> TRUE, vocabulary |-> data.vocabulary] ELSE NoSnap
        /\ UNCHANGED <<assignLog, initMark, initEmpty, writable, mgrVars, apiVars, ioVars>>

AddVocabulary(word) ==
    /\ LET r == addVocabulary(Store, file, word, writable)
       IN  /\ Becomes(r)
           /\ lastOp' = [op |-> "addVocabulary", word |-> word, ret |-> r.ret]
           /\ assignLog' = Append(assignLog, r.ret)
    /\ closeSnap' = NoSnap
    /\ UNCHANGED <<initMark, initEmpty, writable, mgrVars, apiVars, ioVars>>

UpdateVocabulary(wordId, updates) ==
    /\ LET r == updateVocabulary(Store, file, wordId, updates, writable)
       IN  /\ Becomes(r)
           /\ lastOp' = [op |-> "updateVocabulary", wordId |-> wordId, updates |-> updates, ret |-> r.ret]
    /\ closeSnap' = NoSnap
    /\ UNCHANGED <<assignLog, initMark, initEmpty, writable, mgrVars, apiVars, ioVars>>

DeleteVocabulary(wordId) ==
    /\ LET r == deleteVocabulary(Store, file, wordId, writable)
       IN  /\ Becomes(r)
           /\ lastOp' = [op |-> "deleteVocabulary", wordId |-> wordId, ret |-> r.ret]
    /\ closeSnap' = NoSnap
    /\ UNCHANGED <<assignLog, initMark, initEmpty, writable, mgrVars, apiVars, ioVars>>

GetAllVocabulary(options) ==
    /\ lastOp' = [op |-> "getAllVocabulary", options |-> options, ret |-> getAllVocabulary(Store, options)]
    /\ closeSnap' = NoSnap
    /\ UNCHANGED <<storeVars, assignLog, initMark, initEmpty, writable, mgrVars, apiVars, ioVars>>

ImportVocabulary(payload) ==
    /\ LET r == importVocabulary(Store, file, payload, writable)
       IN  /\ Becomes(r)
           /\ lastOp' = [op |-> "importVocabulary", payload |-> payload, ret |-> r.ret,
                         before |-> data.vocabulary]
           /\ assignLog' = assignLog \o
                  [i \in 1..(Len(r.store.data.vocabulary) - Len(data.vocabulary)) |->
                      r.store.data.vocabulary[Len(data.vocabulary) + i].id]
    /\ closeSnap' = NoSnap
    /\ UNCHANGED <<initMark, initEmpty, writable, mgrVars, apiVars, ioVars>>

\* callers use a store after its initialize
Initialized == dbPath # undefined

(***************************************************************************)
(* Spec: the life of one store location: load, vocabulary mutations, close.*)
(***************************************************************************)
Next ==
    \/ \E fresh \in BOOLEAN : Initialize(fresh)
    \/ Initialized /\ Close
    \/ \E word \in Words : Initialized /\ Len(assignLog) < MaxAdds /\ AddVocabulary(word)
    \/ \E wordId \in WordIds, updates \in Updates : Initialized /\ UpdateVocabulary(wordId, updates)
    \/ \E wordId \in WordIds : Initialized /\ DeleteVocabulary(wordId)

Spec == Init /\ [][Next]_vars

(***************************************************************************)
(* SpecList: listing a table built by adds.                                *)
(***************************************************************************)
\* arguments of getAllVocabulary; Absent stands for an option that is not given
Absent == -1

Options(category, offset, limit) ==
    Spread(Spread(IF category = undefined THEN EmptyMap ELSE [category |-> category],
                  IF offset = Absent THEN EmptyMap ELSE [offset |-> offset]),
           IF limit = Absent THEN EmptyMap ELSE [limit |-> limit])

Categories == {undefined, "Basic", "general"}

Slices == {Absent} \cup (0..MaxSlice)

NextList ==
    \/ Initialize(TRUE)
    \/ \E word \in Words : Initialized /\ Len(assignLog) < MaxAdds /\ AddVocabulary(word)
    \/ \E c \in Categories, o \in Slices, l \in Slices : Initialized /\ GetAllVocabulary(Options(c, o, l))

SpecList == Init /\ [][NextList]_vars

(***************************************************************************)
(* SpecImport: bulk import into a small table.                             *)
(***************************************************************************)
SeqsUpTo(S, n) == UNION {[1..k -> S] : k \in 0..n}

ImportRecords == {Hello, Dog}

Header == <<"English", "Vietnamese", "Type", "Phonetic", "Example", "Category">>

CsvLines == { <<"hello", "xin chao">>, <<"dog">>, <<"", "cho">> }

Payloads ==
    {[format |-> "json", kind |-> "json", words |-> w] : w \in SeqsUpTo(ImportRecords, MaxImport)}
    \cup {[format |-> "csv", kind |-> "text", lines |-> <<Header>> \o l] : l \in SeqsUpTo(CsvLines, MaxCsvLines)}
    \cup {[format |-> "json", kind |-> "absent"], [format |-> "json", kind |-> "garbage"],
          [format |-> "xml", kind |-> "text", lines |-> <<Header, <<"hello", "xin chao">> >>]}

NextImport ==
    \/ \E fresh \in BOOLEAN : Initialize(fresh)
    \/ \E word \in Words : Initialized /\ Len(assignLog) < MaxExisting /\ AddVocabulary(word)
    \/ \E payload \in Payloads :
          Initialized /\ Len(data.vocabulary) <= MaxExisting /\ ImportVocabulary(payload)

SpecImport == Init /\ [][NextImport]_vars

(***************************************************************************)
(* SpecSess: learning sessions and the statistics computed from them.      *)
(***************************************************************************)
\* what callers record: word 1 or 2 (there or not), right or wrong
SessionInputs ==
    { [wordId |-> 1, correct |-> TRUE, responseTime |-> 2],
      [wordId |-> 1, correct |-> FALSE, responseTime |-> 5, sessionType |-> "quiz"],
      [wordId |-> 2, correct |-> TRUE, responseTime |-> 3] }

\* new Date() at a call: the clock has moved on since the session before
Now == 10 * nextIds.sessions

MasteryLevels == {3, 4}

RecordLearningSession(session, timestamp) ==
    /\ LET r == recordLearningSession(Store, file, session, timestamp, writable)
       IN  /\ Becomes(r)
           /\ lastOp' = [op |-> "recordLearningSession", session |-> session, timestamp |-> timestamp,
                         ret |-> r.ret]
    /\ closeSnap' = NoSnap
    /\ UNCHANGED <<assignLog, initMark, initEmpty, writable, mgrVars, apiVars, ioVars>>

GetWordStatistics(wordId) ==
    /\ lastOp' = [op |-> "getWordStatistics", wordId |-> wordId, ret |-> getWordStatistics(Store, wordId)]
    /\ closeSnap' = NoSnap
    /\ UNCHANGED <<storeVars, assignLog, initMark, initEmpty, writable, mgrVars, apiVars, ioVars>>

GetOverallProgress ==
    /\ lastOp' = [op |-> "getOverallProgress", ret |-> getOverallProgress(Store)]
    /\ closeSnap' = NoSnap
    /\ UNCHANGED <<storeVars, assignLog, initMark, initEmpty, writable, mgrVars, apiVars, ioVars>>

UpdateWordMastery(wordId, masteryLevel) ==
    /\ LET r == updateWordMastery(Store, file, wordId, masteryLevel, writable)
       IN  /\ Becomes(r)
           /\ lastOp' = [op |-> "updateWordMastery", wordId |-> wordId, ret |-> r.ret]
    /\ closeSnap' = NoSnap
    /\ UNCHANGED <<assignLog, initMark, initEmpty, writable, mgrVars, apiVars, ioVars>>

NextSess ==
    \/ Initialize(TRUE)
    \/ Initialized /\ Len(assignLog) < MaxSessWords /\ AddVocabulary(Dog)
    \/ \E session \in SessionInputs :
          Initialized /\ Len(data.sessions) < MaxSessions /\ RecordLearningSession(session, Now)
    \/ \E wordId \in 1..2 : Initialized /\ GetWordStatistics(wordId)
    \/ Initialized /\ GetOverallProgress
    \/ \E masteryLevel \in MasteryLevels : Initialized /\ UpdateWordMastery(1, masteryLevel)

InitSess == InitOf({NoFile, ByeFile}, {NoCall})

SpecSess == InitSess /\ [][NextSess]_vars

(***************************************************************************)
(* SpecFail: the store on a disk that refuses writes from time to time.    *)
(***************************************************************************)
\* fs.writeFile starts or stops failing (EACCES, EROFS, ENOSPC)
DiskChanges ==
    /\ writable' = ~writable
    /\ lastOp' = [op |-> "disk"]
    /\ closeSnap' = NoSnap
    /\ UNCHANGED <<storeVars, assignLog, initMark, initEmpty, mgrVars, apiVars, ioVars>>

AddCategory(category) ==
    /\ LET r == addCategory(Store, file, category, writable)
       IN  /\ Becomes(r)
           /\ lastOp' = [op |-> "addCategory", category |-> category, ret |-> r.ret]
    /\ closeSnap' = NoSnap
    /\ UNCHANGED <<assignLog, initMark, initEmpty, writable, mgrVars, apiVars, ioVars>>

UpdateCategory(categoryId, updates) ==
    /\ LET r == updateCategory(Store, file, categoryId, updates, writable)
       IN  /\ Becomes(r)
           /\ lastOp' = [op |-> "updateCategory", categoryId |-> categoryId, updates |-> updates, ret |-> r.ret]
    /\ closeSnap' = NoSnap
    /\ UNCHANGED <<assignLog, initMark, initEmpty, writable, mgrVars, apiVars, ioVars>>

DeleteCategory(categoryId) ==
    /\ LET r == deleteCategory(Store, file, categoryId, writable)
       IN  /\ Becomes(r)
           /\ lastOp' = [op |-> "deleteCategory", categoryId |-> categoryId, ret |-> r.ret]
    /\ closeSnap' = NoSnap
    /\ UNCHANGED <<assignLog, initMark, initEmpty, writable, mgrVars, apiVars, ioVars>>

SaveSetting(key, value) ==
    /\ LET r == saveSetting(Store, file, key, value, writable)
       IN  /\ Becomes(r)
           /\ lastOp' = [op |-> "saveSetting", key |-> key, value |-> value, ret |-> r.ret]
    /\ closeSnap' = NoSnap
    /\ UNCHANGED <<assignLog, initMark, initEmpty, writable, mgrVars, apiVars, ioVars>>

NextFail ==
    \/ DiskChanges
    \/ ~isConnected /\ Initialize(TRUE)
    \/ Initialized /\ Len(assignLog) < MaxFail /\ AddVocabulary(Dog)
    \/ Initialized /\ UpdateVocabulary(1, [english |-> "hound"])
    \/ Initialized /\ DeleteVocabulary(1)
    \/ Initialized /\ nextIds.categories <= MaxFail /\ AddCategory([name |-> "Pets"])
    \/ Initialized /\ UpdateCategory(1, [name |-> "Animals"])
    \/ Initialized /\ DeleteCategory(1)
    \/ Initialized /\ SaveSetting("theme", "dark")
    \/ Initialized /\ nextIds.sessions <= MaxFail /\ RecordLearningSession(CHOOSE x \in SessionInputs : ~x.correct, Now)

InitFail == InitOf({NoFile}, {NoCall})

SpecFail == InitFail /\ [][NextFail]_vars

(***************************************************************************)
(* SpecUpdate: adds, updates that carry another record's id, and deletes.  *)
(***************************************************************************)
NextUpdate ==
    \/ ~isConnected /\ Initialize(TRUE)
    \/ Initialized /\ Len(assignLog) < MaxUpdateAdds /\ AddVocabulary(Dog)
    \/ \E wordId \in WordIds :
          Initialized /\ UpdateVocabulary(wordId, [id |-> 2, english |-> "hound"])
    \/ \E wordId \in WordIds : Initialized /\ DeleteVocabulary(wordId)

SpecUpdate == InitSess /\ [][NextUpdate]_vars

(***************************************************************************)
(* SpecBackup: mutations of the four tables between a backup and a restore.*)
(***************************************************************************)
Backup ==
    /\ LET r == backupFile(Store, file, backup.file)
       IN  /\ backup' = IF r.ret THEN [file |-> r.backup, data |-> data] ELSE backup
           /\ lastOp' = [op |-> "backup", ret |-> r.ret]
    /\ closeSnap' = NoSnap
    /\ UNCHANGED <<storeVars, assignLog, initMark, initEmpty, writable, mgrVars, apiVars, tasks, writes>>

\* restore(path): fromBackup tells whether path is the backup path
Restore(source, fromBackup) ==
    /\ LET r == restore(Store, file, source, TRUE, writable)
       IN  /\ Becomes(r)
           /\ lastOp' = [op |-> "restore", source |-> source, fromBackup |-> fromBackup, ret |-> r.ret]
           /\ initMark' = IF r.ret THEN Len(assignLog) ELSE initMark
           /\ initEmpty' = IF r.ret THEN r.store.data.vocabulary = <<>> ELSE initEmpty
    /\ closeSnap' = NoSnap
    /\ UNCHANGED <<assignLog, writable, mgrVars, apiVars, ioVars>>

\* files found at another path than the backup path
OtherSources == {Garbage, JsonFile([categories |-> <<>>])}

NextBackup ==
    \/ ~isConnected /\ Initialize(TRUE)
    \/ Initialized /\ Len(assignLog) < MaxBackupAdds /\ AddVocabulary(Dog)
    \/ Initialized /\ DeleteVocabulary(LastId(data.vocabulary))
    \/ Initialized /\ Len(data.categories) < MaxBackupAdds /\ AddCategory([name |-> "Pets"])
    \/ Initialized /\ SaveSetting("theme", "light")
    \/ Initialized /\ Len(data.sessions) < MaxBackupAdds
          /\ RecordLearningSession([wordId |-> 1, correct |-> TRUE, responseTime |-> 2], Now)
    \/ Initialized /\ Backup
    \/ Initialized /\ Restore(backup.file, TRUE)
    \/ \E source \in OtherSources : Initialized /\ Restore(source, FALSE)

SpecBackup == Init /\ [][NextBackup]_vars

(***************************************************************************)
(* SpecFrame: recorded sessions under every other operation of the store.  *)
(***************************************************************************)
NextFrame ==
    \/ ~isConnected /\ Initialize(TRUE)
    \/ Initialized /\ Len(assignLog) < MaxFrameAdds /\ AddVocabulary(Dog)
    \/ Initialized /\ UpdateVocabulary(1, [english |-> "hound"])
    \/ Initialized /\ DeleteVocabulary(1)
    \/ Initialized /\ UpdateWordMastery(1, 3)
    \/ \E session \in { x \in SessionInputs : x.correct } :
          Initialized /\ Len(data.sessions) < MaxFrameSessions /\ RecordLearningSession(session, Now)
    \/ Initialized /\ nextIds.categories <= MaxFrameAdds /\ AddCategory([name |-> "Pets"])
    \/ Initialized /\ UpdateCategory(1, [name |-> "Animals"])
    \/ Initialized /\ DeleteCategory(1)
    \/ Initialized /\ SaveSetting("theme", "dark")

SpecFrame == InitFail /\ [][NextFrame]_vars

(***************************************************************************)
(* SpecConc: calls of one store that are issued without waiting for the    *)
(* calls before them.  An async method runs up to its first await when it  *)
(* is called and goes on when the awaited promise settles; nothing in      *)
(* JSONDatabase or in the db-* handlers holds a call back until the call   *)
(* before it has returned.  A task is a call with the place it stands at:  *)
(*   "fetched"        recordLearningSession at await getVocabularyById     *)
(*   "update-persist" recordLearningSession in updateVocabulary's saveData *)
(*   "persist"        any call at its own await this.saveData()            *)
(*   "done"           the call has returned                                *)
(* doc is what its fs.writeFile was given, found and reviewCount what      *)
(* recordLearningSession read from the word it looked up.  Writes to the   *)
(* one file complete in any order; each leaves its whole document.         *)
(***************************************************************************)
Task(op, pc, wordId, found, reviewCount, doc, sameTurn) ==
    [op |-> op, pc |-> pc, wordId |-> wordId, found |-> found, reviewCount |-> reviewCount,
     doc |-> doc, sameTurn |-> sameTurn, ticket |-> IF doc = NoFile THEN 0 ELSE writes.issued + 1]

Suspended == { i \in 1..Len(tasks) : tasks[i].pc # "done" }

AtLookup == { i \in 1..Len(tasks) : tasks[i].pc = "fetched" }

InFlight == { i \in 1..Len(tasks) : tasks[i].pc \in {"update-persist", "persist"} }

\* JSON.stringify(this.data) as saveData hands it to fs.writeFile
Snapshot(s) == saveData(s, file, TRUE).file

ConcFrame == UNCHANGED <<dbPath, isConnected, initMark, initEmpty, writable, mgrVars, apiVars, backup>>

\* addVocabulary(word) up to the await in saveData
IssueAddVocabulary(word) ==
    LET r == addVocabulary(Store, file, word, TRUE)
    IN  /\ data' = r.store.data
        /\ nextIds' = r.store.nextIds
        /\ tasks' = Append(tasks, Task("addVocabulary", "persist", r.ret, FALSE, 0, r.file, AtLookup # {}))
        /\ writes' = [writes EXCEPT !.issued = @ + 1]
        /\ assignLog' = Append(assignLog, r.ret)
        /\ lastOp' = [op |-> "issue addVocabulary", word |-> word, overlaps |-> Suspended # {}]
        /\ closeSnap' = NoSnap
        /\ UNCHANGED file
        /\ ConcFrame

\* recordLearningSession(session) up to await this.getVocabularyById(...):
\* the session is pushed and the word looked up
IssueRecordLearningSession(session, timestamp) ==
    LET s1 == recordLearningSession_noReview(Store, file, session, timestamp, TRUE).store
        wordIndex == findIndex(s1.data.vocabulary, session.wordId)
        word == s1.data.vocabulary[wordIndex]
    IN  /\ data' = s1.data
        /\ nextIds' = s1.nextIds
        /\ tasks' = Append(tasks, Task("recordLearningSession", "fetched", session.wordId,
                                        wordIndex # 0,
                                        IF wordIndex # 0 THEN Default0(word, "reviewCount") ELSE 0,
                                        NoFile, AtLookup # {}))
        /\ lastOp' = [op |-> "issue recordLearningSession", session |-> session, overlaps |-> Suspended # {}]
        /\ closeSnap' = NoSnap
        /\ UNCHANGED <<file, assignLog, writes>>
        /\ ConcFrame

\* the oldest call waiting at await getVocabularyById goes on: if (word)
\* updateVocabulary(wordId, {reviewCount: (word.reviewCount || 0) + 1}), up to
\* the await in its saveData; without a word, up to the call's own saveData
ResumeLookup ==
    /\ AtLookup # {}
    /\ LET i == CHOOSE j \in AtLookup : \A k \in AtLookup : j <= k
           t == tasks[i]
           u == updateVocabulary(Store, file, t.wordId, [reviewCount |-> t.reviewCount + 1], TRUE)
           s1 == IF t.found THEN u.store ELSE Store
       IN  /\ data' = s1.data
           /\ tasks' = [tasks EXCEPT ![i] = [@ EXCEPT !.pc = IF t.found /\ u.ret THEN "update-persist" ELSE "persist",
                                                      !.doc = Snapshot(s1),
                                                      !.ticket = writes.issued + 1]]
           /\ writes' = [writes EXCEPT !.issued = @ + 1]
           /\ lastOp' = [op |-> "resume recordLearningSession", task |-> i]
    /\ closeSnap' = NoSnap
    /\ UNCHANGED <<nextIds, file, assignLog>>
    /\ ConcFrame

\* the fs.writeFile of task i completes and the call goes on: after
\* updateVocabulary's write recordLearningSession starts its own saveData,
\* after its own write a call returns
WriteLands(i) ==
    /\ i \in InFlight
    /\ file' = tasks[i].doc
    /\ writes' = [writes EXCEPT !.issued = IF tasks[i].pc = "update-persist" THEN @ + 1 ELSE @,
                                !.landed = Max(@, tasks[i].ticket),
                                !.late = @ \/ tasks[i].ticket < writes.landed]
    /\ IF tasks[i].pc = "update-persist"
       THEN tasks' = [tasks EXCEPT ![i] = [@ EXCEPT !.pc = "persist",
                                                   !.doc = Snapshot(Store),
                                                   !.ticket = writes.issued + 1]]
       ELSE tasks' = [tasks EXCEPT ![i] = [@ EXCEPT !.pc = "done"]]
    /\ lastOp' = [op |-> "write lands", task |-> i]
    /\ closeSnap' = NoSnap
    /\ UNCHANGED <<data, nextIds, assignLog>>
    /\ ConcFrame

NextConc ==
    \/ ~isConnected /\ Initialize(TRUE)
    \/ Initialized /\ Len(tasks) < MaxCalls /\ IssueAddVocabulary(Dog)
    \/ \E session \in { x \in SessionInputs : x.correct } :
          Initialized /\ Len(tasks) < MaxCalls /\ IssueRecordLearningSession(session, Now)
    \/ ResumeLookup
    \/ \E i \in 1..MaxCalls : WriteLands(i)

SpecConc == InitSess /\ [][NextConc]_vars

(***************************************************************************)
(* SpecSearch: text search over entries added and updated through the      *)
(* store's own methods.                                                    *)
(***************************************************************************)
Queries == {"DOG", "ell", "chao", "zzz"}

StoreSearchVocabulary(query) ==
    /\ lastOp' = [op |-> "searchVocabulary", query |-> query, out |-> searchVocabulary(Store, query)]
    /\ closeSnap' = NoSnap
    /\ UNCHANGED <<storeVars, assignLog, initMark, initEmpty, writable, mgrVars, apiVars, ioVars>>

NextSearch ==
    \/ ~isConnected /\ Initialize(TRUE)
    \/ \E word \in Words : Initialized /\ Len(assignLog) < MaxSearchAdds /\ AddVocabulary(word)
    \/ \E wordId \in 1..2 : Initialized /\ UpdateVocabulary(wordId, [vietnamese |-> null])
    \/ \E query \in Queries : Initialized /\ StoreSearchVocabulary(query)

SpecSearch == InitSess /\ [][NextSearch]_vars

(***************************************************************************)
(* SpecLoad: what the store writes after loading any kind of file; the     *)
(* calls that follow the load work on the categories and the settings.     *)
(***************************************************************************)
InitLoad == InitOf(InitialFiles \cup {ObjectFile}, {NoCall})

NextLoad ==
    \/ Initialize(TRUE)
    \/ Initialized /\ Close
    \/ Initialized /\ Len(data.categories) < MaxLoad /\ AddCategory([name |-> "Pets"])
    \/ Initialized /\ DeleteCategory(Mine.id)
    \/ Initialized /\ SaveSetting("theme", "light")

SpecLoad == InitLoad /\ [][NextLoad]_vars

(***************************************************************************)
(* SpecMgr: the manager and the db-* IPC handlers that go through it.      *)
(***************************************************************************)
\* DatabaseManager.db is null or the store
Manager == [db |-> db, isInitialized |-> mgrIsInitialized]

DbTypes == {"json", "sqlite", "mongo"}

MgrInitialize(dbType, mkdirOk) ==
    LET r == mgrInitialize(Manager, Store, file, dbType, mkdirOk, writable)
    IN  /\ Becomes(r)
        /\ db' = r.mgr.db
        /\ mgrIsInitialized' = r.mgr.isInitialized
        /\ lifecycle' = IF r.ret THEN "Ready" ELSE "Failed"
        /\ lastOp' = [op |-> "manager.initialize", dbType |-> dbType, ret |-> r.ret, before |-> file,
                      was |-> lifecycle]
        /\ UNCHANGED <<histVars, writable, apiVars, ioVars>>

MgrClose ==
    LET r == mgrClose(Manager, Store, file, writable)
    IN  /\ Becomes(r)
        /\ db' = r.mgr.db
        /\ mgrIsInitialized' = r.mgr.isInitialized
        /\ lifecycle' = "Closed"
        /\ lastOp' = [op |-> "manager.close"]
        /\ UNCHANGED <<histVars, writable, apiVars, ioVars>>

\* a handler whose getDatabase() threw: the error goes back to the caller
Rejected(channel) ==
    /\ lastOp' = [op |-> channel, rejected |-> TRUE]
    /\ UNCHANGED <<storeVars, histVars, writable, mgrVars, apiVars, ioVars>>

\* ipcMain.handle('db-add-vocabulary')
DbAddVocabulary(word) ==
    IF getDatabase(Manager) = NotInitializedError THEN Rejected("db-add-vocabulary")
    ELSE LET r == addVocabulary(Store, file, word, writable)
         IN  /\ Becomes(r)
             /\ lastOp' = [op |-> "db-add-vocabulary", rejected |-> FALSE, ret |-> r.ret]
             /\ UNCHANGED <<histVars, writable, mgrVars, apiVars, ioVars>>

\* ipcMain.handle('db-delete-vocabulary')
DbDeleteVocabulary(wordId) ==
    IF getDatabase(Manager) = NotInitializedError THEN Rejected("db-delete-vocabulary")
    ELSE LET r == deleteVocabulary(Store, file, wordId, writable)
         IN  /\ Becomes(r)
             /\ lastOp' = [op |-> "db-delete-vocabulary", rejected |-> FALSE, ret |-> r.ret]
             /\ UNCHANGED <<histVars, writable, mgrVars, apiVars, ioVars>>

\* ipcMain.handle('db-delete-category')
DbDeleteCategory(categoryId) ==
    IF getDatabase(Manager) = NotInitializedError THEN Rejected("db-delete-category")
    ELSE LET r == deleteCategory(Store, file, categoryId, writable)
         IN  /\ Becomes(r)
             /\ lastOp' = [op |-> "db-delete-category", rejected |-> FALSE, ret |-> r.ret]
             /\ UNCHANGED <<histVars, writable, mgrVars, apiVars, ioVars>>

NextMgr ==
    \/ \E dbType \in DbTypes, mkdirOk \in BOOLEAN : MgrInitialize(dbType, mkdirOk)
    \/ MgrClose
    \/ nextIds.vocabulary <= MaxMgrVocab /\ DbAddVocabulary(Dog)
    \/ DbDeleteVocabulary(LastId(data.vocabulary))
    \/ DbDeleteCategory(LastId(data.categories))

SpecMgr == Init /\ [][NextMgr]_vars

(***************************************************************************)
(* SpecApi: the facade and the remote index behind it.                     *)
(***************************************************************************)
Pings ==
    { [threw |-> TRUE, status |-> 0], [threw |-> TRUE, status |-> 503],
      [threw |-> FALSE, status |-> 200], [threw |-> FALSE, status |-> 204] }

Remotes(maxTotal) == { [up |-> FALSE, numFound |-> 0] } \cup { [up |-> TRUE, numFound |-> n] : n \in 0..maxTotal }

PageOptions ==
    {NullOptions, EmptyMap, [page |-> 0, size |-> 1, category |-> "Basic"]}
        \cup { [page |-> p, size |-> z] : p \in 0..MaxPage, z \in 1..MaxSize }

SessionOptions ==
    {NullOptions, EmptyMap} \cup { [count |-> c, random |-> b] : c \in 0..MaxCount, b \in BOOLEAN }

SearchTexts == { <<"d", "o", "g">>, <<"a", "*">> }

SearchOptions == {NullOptions, EmptyMap, [searchType |-> "english", limit |-> 1]}

NewWords == { [english |-> "cat", vietnamese |-> "meo", note |-> "Basic"], [id |-> "7", english |-> "cat"] }

\* the calls a renderer can have in flight
Calls ==
    { [op |-> "api.getVocabularyPaginated", options |-> o, remote |-> r] :
          o \in PageOptions, r \in Remotes(MaxTotal) }
    \cup { [op |-> "api.getVocabularySession", options |-> o, remote |-> r[1], remote2 |-> r[2], random |-> n] :
              o \in SessionOptions, r \in Remotes(MaxSessionTotal) \X Remotes(MaxSessionTotal),
              n \in 0..MaxRandom }
    \cup { [op |-> "api.searchVocabulary", searchText |-> t, options |-> o, remote |-> r] :
              t \in SearchTexts, o \in SearchOptions, r \in Remotes(1) }
    \cup { [op |-> "api.getVocabularyById", id |-> i, remote |-> r] : i \in 1..2, r \in Remotes(1) }
    \cup { [op |-> "api.getCategories", remote |-> r] : r \in Remotes(1) }
    \cup { [op |-> "api.addVocabulary", vocabulary |-> v, remote |-> r] : v \in NewWords, r \in Remotes(1) }
    \cup { [op |-> "api.getStatistics", remote |-> r] : r \in Remotes(1) }

\* the facade takes up the call in flight: what it was given and what came out
Called(op, out, sent) ==
    /\ pending.op = op
    /\ lastOp' = [op |-> op, ready |-> apiIsInitialized, call |-> pending, out |-> out, sent |-> sent]
    /\ pending' = NoCall
    /\ UNCHANGED <<storeVars, writable, histVars, mgrVars, apiIsInitialized, ioVars>>

ApiInitialize(ping) ==
    /\ apiIsInitialized' = api_initialize(ping)
    /\ lastOp' = [op |-> "api.initialize", ping |-> ping, ret |-> api_initialize(ping)]
    /\ UNCHANGED <<storeVars, writable, histVars, mgrVars, pending, ioVars>>

GetVocabularyPaginated ==
    /\ pending.op = "api.getVocabularyPaginated"
    /\ LET out == api_getVocabularyPaginated(apiIsInitialized, pending.options, pending.remote)
       IN  Called("api.getVocabularyPaginated", out,
                  IF apiIsInitialized /\ ~out.threw
                  THEN <<solr_params(api_paginatedRequest(pending.options))>> ELSE <<>>)

GetVocabularySession ==
    /\ pending.op = "api.getVocabularySession"
    /\ LET out == api_getVocabularySession(apiIsInitialized, pending.options, pending.remote,
                                           pending.remote2, pending.random)
       IN  Called("api.getVocabularySession", out,
                  IF apiIsInitialized /\ ~out.threw /\ Default(pending.options, "random", TRUE)
                  THEN solr_randomRequests(pending.remote, Default(pending.options, "count", 10),
                                           Filters(pending.options), pending.random)
                  ELSE <<>>)

SearchVocabulary ==
    /\ pending.op = "api.searchVocabulary"
    /\ Called("api.searchVocabulary",
              api_searchVocabulary(apiIsInitialized, pending.searchText, pending.options, pending.remote), <<>>)

ApiGetVocabularyById ==
    /\ pending.op = "api.getVocabularyById"
    /\ Called("api.getVocabularyById", api_getVocabularyById(apiIsInitialized, pending.id, pending.remote), <<>>)

GetCategories ==
    /\ pending.op = "api.getCategories"
    /\ Called("api.getCategories", api_getCategories(apiIsInitialized, pending.remote), <<>>)

ApiAddVocabulary ==
    /\ pending.op = "api.addVocabulary"
    /\ Called("api.addVocabulary",
              api_addVocabulary(apiIsInitialized, pending.vocabulary, pending.remote), <<>>)

GetStatistics ==
    /\ pending.op = "api.getStatistics"
    /\ Called("api.getStatistics", api_getStatistics(apiIsInitialized, pending.remote), <<>>)

ApiMethods ==
    {"api.getVocabularyPaginated", "api.getVocabularySession", "api.searchVocabulary",
     "api.getVocabularyById", "api.getCategories", "api.addVocabulary", "api.getStatistics"}

InitApi == InitOf({NoFile}, Calls)

NextApi ==
    \/ \E ping \in Pings : ApiInitialize(ping)
    \/ GetVocabularyPaginated
    \/ GetVocabularySession
    \/ SearchVocabulary
    \/ ApiGetVocabularyById
    \/ GetCategories
    \/ ApiAddVocabulary
    \/ GetStatistics

SpecApi == InitApi /\ [][NextApi]_vars

DbChannels == {"db-add-vocabulary", "db-delete-vocabulary", "db-delete-category"}

(***************************************************************************)
(* Claims about the store.                                                 *)
(***************************************************************************)
\* the ids addVocabulary returned on this store instance since its load
SinceLoad == SubSeq(assignLog, initMark + 1, Len(assignLog))

\* C1: on a store instance loaded with an empty vocabulary table, the ids
\* addVocabulary returns are 1, 2, 3, ... in call order, whatever deletes
\* (and updates) come in between.
C1_IdsCountFromOne ==
    (Initialized /\ initEmpty) => \A i \in 1..Len(SinceLoad) : SinceLoad[i] = i

\* the third add returned 3 although a delete left fewer than two entries
C1_Witness ==
    /\ Initialized /\ initEmpty
    /\ lastOp.op = "addVocabulary" /\ lastOp.ret = 3
    /\ Len(SinceLoad) = 3
    /\ Len(data.vocabulary) < 3

\* what a caller sees of an entry: each property's value, undefined when missing
Defined(o, k) == k \in DOMAIN o /\ (k \in TextKeys => o[k] # undefined)

EntryKeys == {"id", "english", "vietnamese", "type", "category", "masteryLevel", "reviewCount"}

SameEntry(a, b) ==
    \A k \in EntryKeys : /\ Defined(a, k) <=> Defined(b, k)
                         /\ Defined(a, k) => a[k] = b[k]

\* C2: after close has flushed the table, initialize from the same location
\* (on a new instance or on this one) lists the same entries, ids and content,
\* in the same order, and the next addVocabulary returns the largest id + 1.
C2_RoundTrip ==
    (lastOp.op = "initialize" /\ lastOp.snap.taken) =>
        LET before == lastOp.snap.vocabulary
            after == getAllVocabulary(Store, EmptyMap)
        IN  /\ lastOp.ret = TRUE
            /\ Len(after) = Len(before)
            /\ \A i \in 1..Len(before) : SameEntry(after[i], before[i])
            /\ addVocabulary(Store, file, Hello, writable).ret = MathMax0(Ids(before)) + 1

\* a reload of three entries, one of them without a vietnamese value, the
\* largest id above the number of entries
C2_Witness ==
    /\ lastOp.op = "initialize" /\ lastOp.snap.taken
    /\ Len(lastOp.snap.vocabulary) = 3
    /\ \E i \in 1..3 : ~Defined(lastOp.snap.vocabulary[i], "vietnamese")
    /\ MathMax0(Ids(data.vocabulary)) > 3

\* C3 (as claimed): no id is returned by addVocabulary twice, whatever deletes,
\* closes and initializes come in between.
C3_IdNeverReassigned ==
    \A i, j \in 1..Len(assignLog) : i < j => assignLog[i] # assignLog[j]

\* C9: deleteVocabulary of an id that is not in the table returns false and
\* changes neither the tables, nor the counters, nor the file.
C9_DeleteAbsentChangesNothing ==
    [][ (lastOp'.op = "deleteVocabulary" /\ lastOp'.wordId \notin Ids(data.vocabulary))
            => (/\ lastOp'.ret = FALSE
                /\ data' = data
                /\ nextIds' = nextIds
                /\ file' = file) ]_vars

\* a delete that returned false on a table that holds entries
C9_Witness ==
    /\ lastOp.op = "deleteVocabulary" /\ lastOp.ret = FALSE
    /\ Len(data.vocabulary) >= 2

\* the claim's reading of getAllVocabulary({category, offset, limit})
Drop(s, n) == SubSeq(s, n + 1, Len(s))

Take(s, n) == SubSeq(s, 1, IF n < Len(s) THEN n ELSE Len(s))

InCategory(s, c) == SelectSeq(s, LAMBDA w : Get(w, "category") = c)

\* C8 (as claimed): with category, offset and limit given, the result is the
\* entries of that category in insertion order, less the first offset of
\* them, cut to at most limit entries.
C8_FilterThenOffsetThenLimit ==
    (lastOp.op = "getAllVocabulary" /\ DOMAIN lastOp.options = {"category", "offset", "limit"}) =>
        lastOp.ret = Take(Drop(InCategory(data.vocabulary, lastOp.options.category),
                               lastOp.options.offset),
                          lastOp.options.limit)

\* The same reading where the limit is at least 1: it holds, and the example
\* (three Basic entries, offset 1, limit 1) gives the second Basic entry.
C8_HoldsForPositiveLimit ==
    (/\ lastOp.op = "getAllVocabulary"
     /\ DOMAIN lastOp.options = {"category", "offset", "limit"}
     /\ lastOp.options.limit >= 1) =>
        lastOp.ret = Take(Drop(InCategory(data.vocabulary, lastOp.options.category),
                               lastOp.options.offset),
                          lastOp.options.limit)

C8_Example ==
    (/\ lastOp.op = "getAllVocabulary"
     /\ lastOp.options = [category |-> "Basic", offset |-> 1, limit |-> 1]
     /\ Len(InCategory(data.vocabulary, "Basic")) = 3) =>
        lastOp.ret = << InCategory(data.vocabulary, "Basic")[2] >>

\* a candidate record with both english and vietnamese non-empty
Valid(w) ==
    /\ "english" \in DOMAIN w /\ w.english \notin {"", undefined}
    /\ "vietnamese" \in DOMAIN w /\ w.vietnamese \notin {"", undefined}

Candidates(payload) == IF payload.format = "json" THEN payload.words ELSE csvWords(payload.lines)

\* C10: an import of k candidate records, m of them valid, returns
\* {imported: m, total: k}, appends exactly the m valid records in order with
\* ids that are new and distinct, and leaves the entries that were there as
\* they were.
C10_ImportCounts ==
    (/\ lastOp.op = "importVocabulary"
     /\ lastOp.payload.kind \in {"json", "text"}
     /\ lastOp.payload.format \in {"json", "csv"}) =>
        LET words == Candidates(lastOp.payload)
            valid == SelectSeq(words, Valid)
            before == lastOp.before
            n == Len(before)
        IN  /\ lastOp.ret = [imported |-> Len(valid), total |-> Len(words)]
            /\ Len(data.vocabulary) = n + Len(valid)
            /\ SubSeq(data.vocabulary, 1, n) = before
            /\ \A i \in 1..Len(valid) :
                  /\ data.vocabulary[n + i].english = valid[i].english
                  /\ data.vocabulary[n + i].vietnamese = valid[i].vietnamese
                  /\ data.vocabulary[n + i].id \notin Ids(before)
                  /\ \A j \in 1..(i - 1) : data.vocabulary[n + j].id # data.vocabulary[n + i].id

\* four candidates, the second of them invalid, imported into a table of one entry
C10_Witness ==
    /\ lastOp.op = "importVocabulary"
    /\ lastOp.payload.kind = "json"
    /\ lastOp.ret = [imported |-> 3, total |-> 4]
    /\ Len(lastOp.before) = 1
    /\ ~Valid(lastOp.payload.words[2])

(***************************************************************************)
(* Claims about the manager (SpecMgr).                                     *)
(***************************************************************************)
\* C4: a manager initialize that finds a table of the file non-empty leaves
\* that table as the file has it: no seed category, no seed vocabulary entry
\* and no seed setting is added to a non-empty table, however often
\* initialize is called.
C4_SeedingIdempotent ==
    (lastOp.op = "manager.initialize" /\ lastOp.ret /\ lastOp.before.kind = "json") =>
        LET was == Spread(DefaultData, lastOp.before.doc)
        IN  /\ \A t \in ListTables \ {"sessions"} : Len(was[t]) > 0 => data[t] = was[t]
            /\ DOMAIN was.settings # {} => data.settings = was.settings

\* a second initialize on a location whose three tables are non-empty and
\* are not the seed tables: a seed category was removed in between
C4_Witness ==
    /\ lastOp.op = "manager.initialize" /\ lastOp.ret /\ lastOp.before.kind = "json"
    /\ Len(lastOp.before.doc.categories) = Len(DefaultCategories) - 1
    /\ Len(lastOp.before.doc.vocabulary) = Len(sampleWords)
    /\ DOMAIN lastOp.before.doc.settings # {}

\* C5: getDatabase returns the store handle exactly in the Ready state, and
\* a db-* handler is turned away with the not-initialized error exactly
\* outside it: before any successful initialize, after a failed initialize
\* and after close.
C5_HandleOnlyWhenReady ==
    /\ getDatabase(Manager) = TheStore <=> lifecycle = "Ready"
    /\ lastOp.op \in DbChannels => (lastOp.rejected <=> lifecycle # "Ready")

\* a handler turned away after a failed initialize that left a store
\* instance in the manager
C5_Witness ==
    /\ lifecycle = "Failed" /\ db = TheStore
    /\ lastOp.op \in DbChannels /\ lastOp.rejected

\* a handler turned away after close
C5_WitnessClosed ==
    /\ lifecycle = "Closed" /\ lastOp.op \in DbChannels /\ lastOp.rejected

(***************************************************************************)
(* Claims about the facade (SpecApi).                                      *)
(***************************************************************************)
\* the envelope of the listing methods when the facade is not ready
NotAvailable == [success |-> FALSE, error |-> NotAvailableError, data |-> <<>>]

EmptyData(op) ==
    IF op = "api.getVocabularyById" THEN <<null>>
    ELSE IF op = "api.getStatistics" THEN <<[total |-> 0, categories |-> <<>>]>>
    ELSE IF op = "api.addVocabulary" THEN <<>>
    ELSE << <<>> >>

Pages(total, size) == CHOOSE n \in 0..total : n * size >= total /\ (n = 0 \/ (n - 1) * size < total)

\* C7: a successful getVocabularyPaginated asks the index for size rows from
\* start = page * size and returns page, size, the index's total,
\* totalPages = ceil(total / size), hasPrevious exactly when page > 0 and
\* hasNext exactly when page + 1 < totalPages; with 25 documents and size
\* 10, page 0 has 3 pages, a next and no previous, and page 2 has a
\* previous and no next.
C7_PaginationEnvelope ==
    (lastOp.op = "api.getVocabularyPaginated" /\ ~lastOp.out.threw /\ lastOp.out.ret.success) =>
        LET page == Default(lastOp.call.options, "page", 0)
            size == Default(lastOp.call.options, "size", 10)
            total == lastOp.call.remote.numFound
            p == lastOp.out.ret.pagination
        IN  /\ Len(lastOp.sent) = 1
            /\ lastOp.sent[1].start = page * size /\ lastOp.sent[1].rows = size
            /\ p.page = page /\ p.size = size /\ p.total = total
            /\ p.totalPages = Pages(total, size)
            /\ p.hasPrevious <=> page > 0
            /\ p.hasNext <=> page + 1 < p.totalPages
            /\ (total = 25 /\ size = 10 /\ page = 0) =>
                   (p.totalPages = 3 /\ p.hasNext /\ ~p.hasPrevious)
            /\ (total = 25 /\ size = 10 /\ page = 2) => (~p.hasNext /\ p.hasPrevious)

\* page 2 of 25 documents in pages of 10
C7_Witness ==
    /\ lastOp.op = "api.getVocabularyPaginated" /\ ~lastOp.out.threw /\ lastOp.out.ret.success
    /\ lastOp.call.remote.numFound = 25 /\ lastOp.call.options = [page |-> 2, size |-> 10]
    /\ Len(lastOp.out.ret.data) = 5

(***************************************************************************)
(* Claims about sessions and statistics (SpecSess).                        *)
(***************************************************************************)
\* the positions in the sessions table of the sessions of a word
SessionsOf(wordId) == {i \in 1..Len(data.sessions) : data.sessions[i].wordId = wordId}

RECURSIVE TotalResponseTime(_)
TotalResponseTime(I) ==
    IF I = {} THEN 0
    ELSE LET i == CHOOSE x \in I : TRUE
         IN  data.sessions[i].responseTime + TotalResponseTime(I \ {i})

\* ratio is a / b, or 0 when b = 0
IsRatio(ratio, a, b) ==
    /\ ratio.den # 0
    /\ IF b = 0 THEN ratio.num = 0 ELSE ratio.num * b = a * ratio.den

\* C11: getWordStatistics(wordId) counts the word's sessions and the correct
\* ones among them, gives their ratio as accuracy and the mean of their
\* response times (both 0 without sessions), and as lastSession the timestamp
\* of the word's session recorded last, the one with the largest id (null
\* without sessions).
C11_WordStatistics ==
    lastOp.op = "getWordStatistics" =>
        LET I == SessionsOf(lastOp.wordId)
            right == {i \in I : data.sessions[i].correct}
            r == lastOp.ret
        IN  /\ r.totalSessions = Cardinality(I)
            /\ r.correctSessions = Cardinality(right)
            /\ IsRatio(r.accuracy, Cardinality(right), Cardinality(I))
            /\ IsRatio(r.averageResponseTime, TotalResponseTime(I), Cardinality(I))
            /\ IF I = {} THEN r.lastSession = <<>>
               ELSE \E i \in I : /\ \A j \in I : data.sessions[j].id <= data.sessions[i].id
                                 /\ r.lastSession = <<data.sessions[i].timestamp>>

\* three sessions of the word, two of them correct: accuracy 2/3
C11_Witness ==
    /\ lastOp.op = "getWordStatistics"
    /\ lastOp.ret.totalSessions = 3 /\ lastOp.ret.correctSessions = 2
    /\ lastOp.ret.accuracy.num * 3 = 2 * lastOp.ret.accuracy.den
    /\ ~data.sessions[3].correct

\* C12: getOverallProgress gives the size of the vocabulary table, the number
\* of entries with masteryLevel >= 4, correct / total sessions and mastered /
\* total words, each ratio 0 (and no division by zero) when its total is 0.
C12_OverallProgress ==
    lastOp.op = "getOverallProgress" =>
        LET mastered == {i \in 1..Len(data.vocabulary) :
                            "masteryLevel" \in DOMAIN data.vocabulary[i] /\ data.vocabulary[i].masteryLevel >= 4}
            right == {i \in 1..Len(data.sessions) : data.sessions[i].correct}
            r == lastOp.ret
        IN  /\ r.totalWords = Len(data.vocabulary)
            /\ r.masteredWords = Cardinality(mastered)
            /\ IsRatio(r.overallAccuracy, Cardinality(right), Len(data.sessions))
            /\ IsRatio(r.masteryPercentage, Cardinality(mastered), Len(data.vocabulary))

\* one of two words mastered, another at level 3 or 0, sessions both right and wrong
C12_Witness ==
    /\ lastOp.op = "getOverallProgress"
    /\ lastOp.ret.totalWords = 2 /\ lastOp.ret.masteredWords = 1
    /\ lastOp.ret.totalSessions = 3 /\ lastOp.ret.correctSessions = 2

\* the empty store: both ratios 0
C12_WitnessEmpty ==
    /\ lastOp.op = "getOverallProgress"
    /\ lastOp.ret.totalWords = 0 /\ lastOp.ret.totalSessions = 0

\* the entry is e with its reviewCount one higher
Reviewed(e, after) ==
    /\ DOMAIN after = DOMAIN e \cup {"reviewCount"}
    /\ after.reviewCount = Default0(e, "reviewCount") + 1
    /\ \A k \in DOMAIN e \ {"reviewCount"} : after[k] = e[k]

\* C20: recordLearningSession appends one session, with the id it returns,
\* larger than the id of every session recorded before (no step ever removes
\* a session); the entry whose id is the session's wordId has its reviewCount
\* raised by 1 and no other entry changes; without such an entry the session
\* is recorded all the same and the vocabulary table stays as it is.
C20_RecordLearningSession ==
    [][ /\ Len(data'.sessions) >= Len(data.sessions)
        /\ SubSeq(data'.sessions, 1, Len(data.sessions)) = data.sessions
        /\ lastOp'.op = "recordLearningSession" =>
              LET n == Len(data.sessions)
                  wordId == lastOp'.session.wordId
              IN  /\ Len(data'.sessions) = n + 1
                  /\ data'.sessions[n + 1].id = lastOp'.ret
                  /\ data'.sessions[n + 1].wordId = wordId
                  /\ \A i \in 1..n : data.sessions[i].id < lastOp'.ret
                  /\ Len(data'.vocabulary) = Len(data.vocabulary)
                  /\ \A i \in 1..Len(data.vocabulary) :
                        IF data.vocabulary[i].id = wordId
                        THEN Reviewed(data.vocabulary[i], data'.vocabulary[i])
                        ELSE data'.vocabulary[i] = data.vocabulary[i] ]_vars

\* a second session recorded for a word that is not in the table
C20_Witness ==
    /\ lastOp.op = "recordLearningSession"
    /\ lastOp.session.wordId \notin Ids(data.vocabulary)
    /\ Len(data.sessions) >= 2 /\ Len(data.vocabulary) >= 1

\* a session recorded for a word of the table: its reviewCount is 2
C20_WitnessReviewed ==
    /\ lastOp.op = "recordLearningSession"
    /\ \E i \in 1..Len(data.vocabulary) :
          data.vocabulary[i].id = lastOp.session.wordId /\ data.vocabulary[i].reviewCount = 2

Mutating ==
    {"addVocabulary", "updateVocabulary", "deleteVocabulary", "addCategory", "updateCategory",
     "deleteCategory", "saveSetting", "recordLearningSession"}

\* what the call recorded in o does to the store s when its write succeeds
WhenWritten(o, s, f) ==
    CASE o.op = "addVocabulary" -> addVocabulary(s, f, o.word, TRUE)
      [] o.op = "updateVocabulary" -> updateVocabulary(s, f, o.wordId, o.updates, TRUE)
      [] o.op = "deleteVocabulary" -> deleteVocabulary(s, f, o.wordId, TRUE)
      [] o.op = "addCategory" -> addCategory(s, f, o.category, TRUE)
      [] o.op = "updateCategory" -> updateCategory(s, f, o.categoryId, o.updates, TRUE)
      [] o.op = "deleteCategory" -> deleteCategory(s, f, o.categoryId, TRUE)
      [] o.op = "saveSetting" -> saveSetting(s, f, o.key, o.value, TRUE)
      [] o.op = "recordLearningSession" -> recordLearningSession(s, f, o.session, o.timestamp, TRUE)

\* C13: a mutating call made while the disk refuses the write returns what it
\* returns when the write succeeds and leaves the same records in memory, so
\* later reads see the mutation; the file keeps its previous content; and a
\* mutating call whose write succeeds leaves on disk the whole in-memory state,
\* the mutations of the failed persists included.
C13_FailedPersistKeepsMemory ==
    [][lastOp'.op \in Mutating =>
         LET r == WhenWritten(lastOp', Store, file)
         IN  /\ data' = r.store.data
             /\ nextIds' = r.store.nextIds
             /\ lastOp'.ret = r.ret
             /\ getAllVocabulary(Store', EmptyMap) = r.store.data.vocabulary
             /\ ~writable => file' = file
             /\ (writable /\ file' # file) => file' = JsonFile(JsonDocument(data'))]_vars

\* a category was renamed in memory while the disk refused the write
C13_Witness ==
    /\ lastOp.op = "updateCategory"
    /\ lastOp.ret = TRUE
    /\ ~writable
    /\ data.categories[1].name = "Animals"
    /\ file.kind = "json"
    /\ file.doc.categories # data.categories

\* after failed persists, one successful write has put everything on disk
C13_WitnessRecovered ==
    /\ lastOp.op = "saveSetting"
    /\ writable
    /\ Len(data.vocabulary) = 1
    /\ Len(data.sessions) = 1
    /\ file = JsonFile(JsonDocument(data))

WellFormed(doc) ==
    /\ Tables \subseteq DOMAIN doc
    /\ \A t \in ListTables : IsArray(doc[t])

\* C14: every document the store writes has the four tables, vocabulary,
\* categories and sessions as lists and settings as a mapping, whatever file
\* initialize found.
C14_WrittenDocumentHasFourTables ==
    [][file' # file => WellFormed(file'.doc)]_vars

\* the same for loads of a missing file, an unparseable one, or a parseable
\* one whose tables, where present, are lists
C14_HoldsForListTables ==
    [][(file' # file /\ IsArray(data'.vocabulary)) => WellFormed(file'.doc)]_vars

\* a file without the vocabulary, sessions and settings tables was loaded and
\* the document written afterwards has all four
C14_Example ==
    /\ lastOp.op = "addCategory"
    /\ file.kind = "json"
    /\ WellFormed(file.doc)
    /\ file.doc.vocabulary = <<>>
    /\ Len(file.doc.categories) = 1

\* C15: no store operation raises to its caller.
C15_NoStoreOperationRaises ==
    "out" \in DOMAIN lastOp => ~lastOp.out.threw

AllText(word) == \A k \in {"english", "vietnamese", "type"} : IsText(Get(word, k))

\* a search raises only over a table with an entry that lacks one of the
\* texts english, vietnamese and type
C15_RaisesOnlyOnMissingText ==
    (lastOp.op = "searchVocabulary" /\ lastOp.out.threw)
        => \E i \in 1..Len(data.vocabulary) : ~AllText(data.vocabulary[i])

\* a search that returned its matches
C15_Example ==
    /\ lastOp.op = "searchVocabulary"
    /\ lastOp.query = "DOG"
    /\ ~lastOp.out.threw
    /\ Len(lastOp.out.ret) = 1
    /\ Len(data.vocabulary) = 2

\* C16: manager initialize with a kind other than "json" returns false and
\* leaves the handle and the store as they were (no other store is put in
\* place); after any failed initialize getDatabase is refused as before the
\* first initialize; and an initialize with "json" made in the Failed state
\* whose directory can be created starts from a new store instance, loads the
\* file and reaches Ready.
C16_UnsupportedKindFailsAndRetryWorks ==
    [][lastOp'.op = "manager.initialize" =>
         /\ lastOp'.dbType # "json" =>
               /\ ~lastOp'.ret
               /\ db' = db
               /\ Store' = Store /\ file' = file
         /\ ~lastOp'.ret =>
               /\ lifecycle' = "Failed"
               /\ getDatabase(Manager') = NotInitializedError
         /\ (lifecycle = "Failed" /\ lastOp'.dbType = "json" /\ Store'.isConnected) =>
               /\ lastOp'.ret
               /\ lifecycle' = "Ready"
               /\ getDatabase(Manager') = TheStore
               /\ LET r == initialize(NewStore, file, TRUE, writable)
                  IN  Store' = initializeDefaultData(r.store, r.file, writable).store]_vars

\* an initialize with an unsupported kind has just failed on a manager that
\* was Ready: the handle to the file store is still there and is refused
C16_Witness ==
    /\ lastOp.op = "manager.initialize"
    /\ lastOp.dbType = "sqlite"
    /\ lastOp.was = "Ready"
    /\ lifecycle = "Failed"
    /\ db = TheStore
    /\ Len(data.vocabulary) = 3

\* the retry with "json" after a failure has reached Ready
C16_WitnessRetry ==
    /\ lastOp.op = "manager.initialize"
    /\ lastOp.dbType = "json"
    /\ lastOp.was = "Failed"
    /\ lifecycle = "Ready"

\* a manager initialize that succeeded where no file was
SeededFromNothing ==
    lastOp.op = "manager.initialize" /\ lastOp.ret /\ lastOp.before = NoFile

\* C17 as stated: after the first successful manager initialize on a location
\* with no file the store holds exactly five categories, three vocabulary
\* entries and four settings.
C17_SeedsFourSettings ==
    SeededFromNothing =>
        /\ Len(data.categories) = 5
        /\ Len(data.vocabulary) = 3
        /\ Cardinality(DOMAIN data.settings) = 4

\* C17 as the code has it: five categories, three vocabulary entries and the
\* five settings theme, language, autoPlay, showPhonetic and cardsPerSession,
\* in memory and in the file.
C17_SeedsFiveSettings ==
    SeededFromNothing =>
        /\ Len(data.categories) = 5
        /\ Len(data.vocabulary) = 3
        /\ DOMAIN data.settings = {"theme", "language", "autoPlay", "showPhonetic", "cardsPerSession"}
        /\ file = JsonFile(JsonDocument(data))

\* the first initialize of a manager on an empty location has succeeded
C17_Witness ==
    /\ SeededFromNothing
    /\ lastOp.was = "Uninitialized"
    /\ lifecycle = "Ready"
    /\ data.settings.cardsPerSession = 10

\* a getVocabularyById that reached the remote client
ById == lastOp.op = "api.getVocabularyById" /\ lastOp.ready

\* what the remote client answers for this id when the search succeeds with
\* zero matches
NotFound == solr_getVocabularyById([up |-> TRUE, numFound |-> 0], lastOp.call.id)

\* C18: the remote client's getVocabularyById gives, when the request failed
\* in transport, a failure reason other than the one it gives when the
\* search succeeded with zero matches.
C18_NotFoundDistinctFromTransport ==
    (ById /\ ~lastOp.call.remote.up) =>
        /\ ~lastOp.out.ret.success
        /\ lastOp.out.ret.error # NotFound.error

\* what does hold: the client fails exactly when the transport failed or
\* nothing matched, and it succeeds with the first match otherwise
C18_FailsWithoutMatch ==
    ById => (lastOp.out.ret.success <=> (lastOp.call.remote.up /\ lastOp.call.remote.numFound > 0))

\* a lookup that found nothing on a reachable index
C18_Example ==
    /\ ById
    /\ lastOp.call.remote = [up |-> TRUE, numFound |-> 0]
    /\ lastOp.out.ret = NotFound

Listings == {"api.getVocabularyPaginated", "api.getVocabularySession"}

Lookups == {"api.searchVocabulary", "api.getVocabularyById"}

\* the records a read path has just returned
Returned ==
    IF lastOp.op \in Listings \cup Lookups /\ ~lastOp.out.threw /\ lastOp.out.ret.success
    THEN IF lastOp.op = "api.getVocabularyById" THEN {lastOp.out.ret.data} ELSE Range(lastOp.out.ret.data)
    ELSE {}

\* the first element of a list field, the field itself when it is a scalar
Canonical(x) ==
    /\ x.english = First(Doc(x.id).word)
    /\ x.vietnamese = First(Doc(x.id).meaning_vi)
    /\ x.note = First(Doc(x.id).note)

\* C19: on every read path of the facade a record carries the first element
\* of a list field as english, vietnamese and note, the field itself when it
\* is a scalar, and the whole word and meaning lists as allWords and
\* allMeanings.
C19_FirstElementOnEveryReadPath ==
    \A x \in Returned :
        /\ Canonical(x)
        /\ x.allWords = OrEmpty(Doc(x.id).word)
        /\ x.allMeanings = OrEmpty(Doc(x.id).meaning_vi)

\* what does hold: the two listings take the first element, the search and
\* the lookup join the elements with ", ", and all four keep the whole lists
C19_ListingsFirstLookupsJoined ==
    \A x \in Returned :
        /\ lastOp.op \in Listings => Canonical(x)
        /\ lastOp.op \in Lookups =>
              /\ x.english = Joined(Doc(x.id).word)
              /\ x.vietnamese = Joined(Doc(x.id).meaning_vi)
              /\ x.note = Joined(Doc(x.id).note)
        /\ x.allWords = OrEmpty(Doc(x.id).word)
        /\ x.allMeanings = OrEmpty(Doc(x.id).meaning_vi)

\* a page whose first record comes from a document with list fields
C19_Example ==
    /\ lastOp.op = "api.getVocabularyPaginated"
    /\ Returned # {}
    /\ lastOp.out.ret.data[1].english = "hi"
    /\ lastOp.out.ret.data[1].allWords = Arr(<<"hi", "hello">>)

PairwiseDistinct(list) == \A i, j \in 1..Len(list) : i # j => list[i].id # list[j].id

\* C21: updateVocabulary(id, updates) on an id of the table puts the fields
\* of updates over that record, except that the record's id stays id, and
\* leaves the other records, the length and the order of the table alone; on
\* an id that is not in the table it returns false and changes nothing.
\* After every step of add, update and delete the ids of the table are
\* pairwise distinct.
C21_UpdateMergesAndKeepsId ==
    [][/\ PairwiseDistinct(data'.vocabulary)
       /\ lastOp'.op = "updateVocabulary" =>
         LET id == lastOp'.wordId
             updates == lastOp'.updates
             old == data.vocabulary
             new == data'.vocabulary
         IN  IF id \in Ids(old)
             THEN /\ lastOp'.ret = TRUE
                  /\ Len(new) = Len(old)
                  /\ \A i \in 1..Len(old) :
                        IF old[i].id = id
                        THEN /\ new[i].id = id
                             /\ DOMAIN new[i] = DOMAIN old[i] \cup DOMAIN updates
                             /\ \A k \in DOMAIN new[i] \ {"id"} :
                                   new[i][k] = IF k \in DOMAIN updates THEN updates[k] ELSE old[i][k]
                        ELSE new[i] = old[i]
             ELSE /\ lastOp'.ret = FALSE
                  /\ data' = data /\ nextIds' = nextIds /\ file' = file]_vars

\* the second of three records was updated with updates that carry the id of
\* the first
C21_Witness ==
    /\ lastOp.op = "updateVocabulary" /\ lastOp.ret = TRUE
    /\ lastOp.wordId = 3 /\ lastOp.updates.id = 2
    /\ Len(data.vocabulary) = 3
    /\ data.vocabulary[1].id = 2 /\ data.vocabulary[1].english = "bye"
    /\ data.vocabulary[2].id = 3 /\ data.vocabulary[2].english = "hound"

\* an update of an id that is not in the table
C21_WitnessAbsent ==
    /\ lastOp.op = "updateVocabulary" /\ lastOp.ret = FALSE
    /\ Len(data.vocabulary) >= 2

\* a restore from the backup path that succeeded
RestoredBackup == lastOp.op = "restore" /\ lastOp.fromBackup /\ lastOp.ret

\* C22: backup changes no in-memory state; after a successful backup(p) and
\* any mutations of the four tables, restore(p) brings the tables back to
\* what they were when the backup was taken, and the next id of each list
\* table is its largest id + 1.
C22_RestoreReturnsToBackup ==
    [][/\ lastOp'.op = "backup" => (data' = data /\ nextIds' = nextIds /\ file' = file)
       /\ RestoredBackup' =>
             /\ JsonDocument(data') = JsonDocument(backup.data)
             /\ nextIds' = NextIdsOf(data')]_vars

\* the same for a backup of a file that holds what the store held in memory
\* when the backup was taken
C22_HoldsForBackupOfWrittenFile ==
    [][(RestoredBackup' /\ backup.file = JsonFile(JsonDocument(backup.data))) =>
             /\ JsonDocument(data') = JsonDocument(backup.data)
             /\ nextIds' = NextIdsOf(data')]_vars

\* a restore that undid an addVocabulary, a category and a setting
C22_Example ==
    /\ RestoredBackup
    /\ backup.file = JsonFile(JsonDocument(backup.data))
    /\ Len(assignLog) = 1
    /\ data.vocabulary = <<>> /\ data.categories = <<>> /\ DOMAIN data.settings = {}
    /\ file = backup.file

\* C24: a store initialize that returned true on a file that parses but
\* lacks some of the four tables leaves each missing table at its empty
\* default in memory, also when it runs inside restore on a store that
\* holds data.  In the step, file is what initialize found at the location and
\* lastOp'.source what restore copied there.
C24_MissingTablesTakeDefault ==
    [][/\ (lastOp'.op = "initialize" /\ lastOp'.ret /\ file.kind = "json") =>
             \A t \in Tables \ DOMAIN file.doc : data'[t] = DefaultData[t]
       /\ (lastOp'.op = "restore" /\ lastOp'.ret /\ lastOp'.source.kind = "json") =>
             \A t \in Tables \ DOMAIN lastOp'.source.doc : data'[t] = DefaultData[t]]_vars

\* the same for the initialize of a newly constructed store
C24_HoldsForNewStore ==
    [][(lastOp'.op = "initialize" /\ lastOp'.ret /\ file.kind = "json") =>
             \A t \in Tables \ DOMAIN file.doc : data'[t] = DefaultData[t]]_vars

\* a new store has loaded a file that holds the categories table alone
C24_Example ==
    /\ lastOp.op = "initialize" /\ lastOp.ret
    /\ file = JsonFile([categories |-> <<>>])
    /\ data = DefaultData

\* C25: a store initialize that finds no file, or a file that does not
\* parse, starts from the empty default structure (four empty tables, next
\* id 1 in each list table), writes that structure at once and returns true,
\* also when it runs inside restore from a source that does not parse.
C25_UnreadableFileStartsEmpty ==
    [][/\ (lastOp'.op = "initialize" /\ file.kind # "json") =>
             /\ lastOp'.ret
             /\ data' = DefaultData /\ nextIds' = DefaultNextIds
             /\ file' = JsonFile(JsonDocument(DefaultData))
       /\ (lastOp'.op = "restore" /\ lastOp'.source.kind = "garbage") =>
             /\ lastOp'.ret
             /\ data' = DefaultData /\ nextIds' = DefaultNextIds
             /\ file' = JsonFile(JsonDocument(DefaultData))]_vars

\* the same for the initialize of a newly constructed store
C25_HoldsForNewStore ==
    [][(lastOp'.op = "initialize" /\ file.kind # "json") =>
             /\ lastOp'.ret
             /\ data' = DefaultData /\ nextIds' = DefaultNextIds
             /\ file' = JsonFile(JsonDocument(DefaultData))]_vars

\* a new store has replaced a file that does not parse by the empty document
C25_Example ==
    /\ lastOp.op = "initialize" /\ lastOp.ret
    /\ file = JsonFile(JsonDocument(DefaultData))
    /\ data = DefaultData /\ nextIds = DefaultNextIds

\* C23: the facade's initialize does not throw: it returns a boolean, true
\* exactly when the one ping was answered with status 200, and stores it as
\* the readiness; isReady() returns that stored value after every later call
\* of a method, whether the index answers that call or not.
C23_ReadinessIsTheStoredProbe ==
    [][IF lastOp'.op = "api.initialize"
       THEN /\ lastOp'.ret \in BOOLEAN
            /\ lastOp'.ret = (~lastOp'.ping.threw /\ lastOp'.ping.status = 200)
            /\ api_isReady(apiIsInitialized') = lastOp'.ret
       ELSE api_isReady(apiIsInitialized') = api_isReady(apiIsInitialized)]_vars

\* a facade that became ready is still ready after a call that the index did
\* not answer
C23_Witness ==
    /\ lastOp.op = "api.getVocabularyById"
    /\ lastOp.ready /\ ~lastOp.call.remote.up
    /\ ~lastOp.out.threw /\ ~lastOp.out.ret.success
    /\ api_isReady(apiIsInitialized)

\* an initialize whose ping failed has returned false
C23_WitnessAbsent ==
    /\ lastOp.op = "api.initialize" /\ lastOp.ping.threw
    /\ lastOp.ret = FALSE /\ ~api_isReady(apiIsInitialized)

\* the operations of the store that may change the sessions table
SessionWriters == {"recordLearningSession", "initialize", "restore"}

\* C27: no operation of the store other than recordLearningSession (and a
\* reload through initialize or restore) changes the sessions table: a step of
\* any other operation leaves it as it was, and recordLearningSession only
\* appends, so a recorded session keeps its id, wordId, correct flag and
\* response time and is never removed, also when the entry it refers to is
\* updated or deleted.
C27_SessionsOnlyAppended ==
    [][/\ lastOp'.op \notin SessionWriters => data'.sessions = data.sessions
       /\ lastOp'.op = "recordLearningSession" =>
             /\ Len(data'.sessions) = Len(data.sessions) + 1
             /\ SubSeq(data'.sessions, 1, Len(data.sessions)) = data.sessions]_vars

\* the entry a recorded session refers to has just been deleted
C27_Witness ==
    /\ lastOp.op = "deleteVocabulary" /\ lastOp.wordId = 1 /\ lastOp.ret
    /\ findIndex(data.vocabulary, 1) = 0
    /\ \E i \in 1..Len(data.sessions) : data.sessions[i].wordId = 1 /\ data.sessions[i].id = 1

\* a ready facade has run getRandomVocabulary(count, filters)
RandomDrawn ==
    /\ lastOp.op = "api.getVocabularySession"
    /\ lastOp.ready /\ ~lastOp.out.threw
    /\ Default(lastOp.call.options, "random", TRUE)

\* C28: getRandomVocabulary(count, filters): when the counting query reports
\* total = 0 it returns the explicit no-data failure and issues no second
\* query; otherwise the second query's start offset is an integer with
\* 0 <= start < max(1, total - count), so that start < total for every
\* count >= 0.
C28_RandomStartWithinTotal ==
    RandomDrawn /\ lastOp.call.remote.up =>
        LET total == lastOp.call.remote.numFound
            count == Default(lastOp.call.options, "count", 10)
        IN  IF total = 0
            THEN /\ Len(lastOp.sent) = 1
                 /\ lastOp.sent[1].rows = 0
                 /\ lastOp.out.ret = [success |-> FALSE, error |-> "No vocabulary found", data |-> <<>>]
            ELSE /\ Len(lastOp.sent) = 2
                 /\ lastOp.sent[2].start \in Nat
                 /\ lastOp.sent[2].start < Max(1, total - count)
                 /\ lastOp.sent[2].start < total
                 /\ lastOp.sent[2].rows = count

\* the largest offset the draw can give: one below total - count
C28_Witness ==
    /\ RandomDrawn /\ lastOp.call.remote.up
    /\ lastOp.call.remote.numFound = MaxSessionTotal
    /\ lastOp.call.options = [count |-> 1, random |-> TRUE]
    /\ Len(lastOp.sent) = 2
    /\ lastOp.sent[2].start = MaxSessionTotal - 2

\* nothing is counted: one query, the no-data failure
C28_WitnessEmpty ==
    /\ RandomDrawn /\ lastOp.call.remote.up
    /\ lastOp.call.remote.numFound = 0
    /\ Len(lastOp.sent) = 1 /\ ~lastOp.out.ret.success

\* a count of zero or one above the total: the offset stays below the total
C28_WitnessCounts ==
    /\ RandomDrawn /\ lastOp.call.remote.up
    /\ lastOp.call.remote.numFound = 1
    /\ Default(lastOp.call.options, "count", 10) \in {0, MaxCount}
    /\ lastOp.sent[2].start = 0

\* C26: two mutating operations on one store never overlap: a second call
\* issued while a first is suspended in its persist does not start to read or
\* modify the store until the first has run to completion.  As a state
\* property: at most one call has started and not yet returned.
C26_MutatingCallsNeverOverlap == Cardinality(Suspended) <= 1

\* every call issued so far has returned
Quiescent == Len(tasks) > 0 /\ Suspended = {}

RecordsOf(wordId) ==
    { i \in 1..Len(tasks) : tasks[i].op = "recordLearningSession" /\ tasks[i].wordId = wordId }

NoIncrementLost(word) ==
    Default0(word, "reviewCount") = Len(SelectSeq(data.sessions, LAMBDA x : x.wordId = word.id))

\* C29: for an entry that exists throughout, once all recordLearningSession
\* calls issued for it have completed, calls issued before earlier ones
\* completed included, its reviewCount equals the number of session records
\* with its wordId.
C29_NoIncrementLost ==
    \A i \in 1..Len(data.vocabulary) :
        (Quiescent /\ \A j \in RecordsOf(data.vocabulary[i].id) : tasks[j].found)
            => NoIncrementLost(data.vocabulary[i])

\* what does hold: no increment is lost when no recordLearningSession for the
\* entry was issued while another call stood between its lookup and its resume
C29_HoldsOutsideTheLookupWindow ==
    \A i \in 1..Len(data.vocabulary) :
        (Quiescent /\ \A j \in RecordsOf(data.vocabulary[i].id) : tasks[j].found /\ ~tasks[j].sameTurn)
            => NoIncrementLost(data.vocabulary[i])

\* two sessions of one entry, each issued after the lookup of the one before
\* had resumed, both counted
C29_Example ==
    /\ Quiescent
    /\ \E i \in 1..Len(data.vocabulary) :
          /\ Cardinality(RecordsOf(data.vocabulary[i].id)) = 2
          /\ \A j \in RecordsOf(data.vocabulary[i].id) : tasks[j].found /\ ~tasks[j].sameTurn
          /\ Default0(data.vocabulary[i], "reviewCount") = 2

\* C30: once every mutating call in flight has completed and no write
\* failed, the document on disk equals the four tables in memory, also when
\* several full-document writes were in flight at once and completed in any
\* order.
C30_FileMirrorsMemoryWhenQuiescent == Quiescent => file = Snapshot(Store)

\* what does hold: the mirror, when no write completed after a write that
\* began later
C30_HoldsWhenWritesLandInOrder == Quiescent /\ ~writes.late => file = Snapshot(Store)

\* three calls, their writes landed in the order they began
C30_Example ==
    /\ Quiescent /\ Len(tasks) = MaxCalls /\ ~writes.late
    /\ Len(data.vocabulary) >= 2
    /\ file = Snapshot(Store)

====
